---- MODULE Spec2Model ----
(***************************************************************************)
(* A model of the SuperAgent orchestrator                                  *)
(* (src/app/services/superagent_service.py): the agentic loop of           *)
(* handle_message, the authorization sub-flow, the connection check and    *)
(* the tool prioritizer.  The Model Gateway (LLMService) and the Tool      *)
(* Provider (ComposioService) are collaborators: every call to them        *)
(* returns a value chosen from a small set or raises.                      *)
(*                                                                         *)
(* Text is a tuple of one-character strings, so that lower(), upper(),     *)
(* split("_") and the substring test are computed and not assumed.         *)
(***************************************************************************)
EXTENDS Integers, Sequences, FiniteSets, TLC

\* ------------------------------------------------------------- constants
MAX_TOOL_ITERATIONS == 10

MAX_TOOLS_PER_REQUEST == 12

\* ---------------------------------------------------------------- bounds
\* Handle calls that callers may make when calls may overlap.
MaxHandles == 2

\* Tool-call intents in one freely chosen model reply.
MaxIntents == 2

\* Call-ids the Model Gateway draws from (unique within one reply only).
MaxCallIds == 2

\* Freely chosen intents over a Handle call whose provider never fails.
MaxFreeIntents == 2

\* Freely chosen intents, and collaborator faults (an exception, a failed
\* result, a refused connection), over a Handle call whose provider may fail.
MaxFaultyIntents == 1

MaxFaults == 1

\* Replies of the looping gateway stub beyond the round cap.
MaxExtraReplies == 1

\* Freely chosen intents and faults when Handle calls overlap or are cancelled.
MaxConcIntents == 1

MaxConcFaults == 1

\* Prioritizer inputs: length of the tool list, and the largest maxCount.
MaxListLen == 4

MaxCount == 3

\* ------------------------------------------------------------------ text
Upper == <<"A", "B", "C", "D", "E", "F", "G", "H", "I", "J", "K", "L", "M",
           "N", "O", "P", "Q", "R", "S", "T", "U", "V", "W", "X", "Y", "Z">>

Lower == <<"a", "b", "c", "d", "e", "f", "g", "h", "i", "j", "k", "l", "m",
           "n", "o", "p", "q", "r", "s", "t", "u", "v", "w", "x", "y", "z">>

\* str.lower() and str.upper(), character by character.
lower(s) ==
    [i \in 1..Len(s) |->
        IF \E k \in 1..26 : Upper[k] = s[i]
        THEN Lower[CHOOSE k \in 1..26 : Upper[k] = s[i]]
        ELSE s[i]]

upper(s) ==
    [i \in 1..Len(s) |->
        IF \E k \in 1..26 : Lower[k] = s[i]
        THEN Upper[CHOOSE k \in 1..26 : Lower[k] = s[i]]
        ELSE s[i]]

\* Python's `k in s` on strings: k is a contiguous part of s.
contains(s, k) ==
    \E i \in 0..(Len(s) - Len(k)) : SubSeq(s, i + 1, i + Len(k)) = k

\* str.split("_"): the parts between separators, empty parts included.
RECURSIVE split(_)
split(s) ==
    IF \A i \in 1..Len(s) : s[i] # "_"
    THEN <<s>>
    ELSE LET i == CHOOSE j \in 1..Len(s) :
                      s[j] = "_" /\ \A k \in 1..(j - 1) : s[k] # "_"
         IN  <<SubSeq(s, 1, i - 1)>> \o split(SubSeq(s, i + 1, Len(s)))

\* Optional[str]: None, or a string (which may be empty).
None == [some |-> FALSE, v |-> <<>>]

Some(s) == [some |-> TRUE, v |-> s]

\* Python truthiness of an Optional[str]: None and "" are both false.
truthy(o) == o.some /\ o.v # <<>>

\* ----------------------------------------------------- names and inputs
\* The tool names of the model; a tool definition is known by the index of
\* its function name.  NAME[1] is the Search tool.
NAME ==
    << <<"C", "O", "M", "P", "O", "S", "I", "O", "_", "S", "E", "A", "R", "C", "H">>,
       <<"S", "L", "A", "C", "K", "_", "A">>,
       <<"S", "L", "A", "C", "K", "_", "B">>,
       <<"S", "L", "A", "C", "K", "_", "C">>,
       <<"S", "L", "A", "C", "K", "_", "D">>,
       <<"S", "L", "A", "C", "K", "_", "E">>,
       <<"S", "L", "A", "C", "K", "_", "F">>,
       <<"S", "L", "A", "C", "K", "_", "G">>,
       <<"S", "L", "A", "C", "K", "_", "H">>,
       <<"S", "L", "A", "C", "K", "_", "I">>,
       <<"S", "L", "A", "C", "K", "_", "J">>,
       <<"G", "M", "A", "I", "L", "_", "A">>,
       <<"P", "I", "N", "G">>,
       <<"G", "I", "T", "H", "U", "B", "_", "A">>,
       <<"g", "i", "t", "h", "u", "b", "_", "b">>,
       <<"J", "I", "R", "A", "_", "A">>,
       <<"T", "R", "E", "L", "L", "O", "_", "A">> >>

SEARCH == CHOOSE i \in 1..Len(NAME) : NAME[i] = <<"C", "O", "M", "P", "O", "S", "I", "O", "_", "S", "E", "A", "R", "C", "H">>

\* User messages, by index.
MESSAGES ==
    << <<"l", "i", "s", "t", " ", "m", "y", " ", "G", "i", "t", "H", "u", "b", " ", "i", "s", "s", "u", "e", "s">>,
       <<"h", "e", "l", "l", "o">>,
       <<"g", "i", "t", " ", "a", "n", "d", " ", "S", "l", "a", "c", "k">>,
       <<"c", "h", "e", "c", "k", " ", "e", "m", "a", "i", "l">> >>

\* ------------------------------------------------------------ prioritizer
\* _extract_toolkit_from_tool_name: the upper-cased part before the first
\* "_", or None when the name has no "_".
_extract_toolkit_from_tool_name(tool_name) ==
    LET parts == split(tool_name)
    IN  IF Len(parts) >= 2 THEN Some(upper(parts[1])) ELSE None

\* _extract_toolkit_from_tool: the same on a tool definition's name (every
\* tool definition of the model has a function name).
_extract_toolkit_from_tool(tool) ==
    LET parts == split(NAME[tool])
    IN  IF Len(parts) >= 2 THEN Some(upper(parts[1])) ELSE None

toolkit_keywords ==
    << [keyword |-> <<"g", "m", "a", "i", "l">>,
        toolkit |-> Some(<<"G", "M", "A", "I", "L">>)],
       [keyword |-> <<"g", "o", "o", "g", "l", "e">>,
        toolkit |-> Some(<<"G", "M", "A", "I", "L">>)],
       [keyword |-> <<"g", "i", "t", "h", "u", "b">>,
        toolkit |-> Some(<<"G", "I", "T", "H", "U", "B">>)],
       [keyword |-> <<"g", "i", "t">>,
        toolkit |-> Some(<<"G", "I", "T", "H", "U", "B">>)],
       [keyword |-> <<"s", "l", "a", "c", "k">>,
        toolkit |-> Some(<<"S", "L", "A", "C", "K">>)],
       [keyword |-> <<"e", "m", "a", "i", "l">>,
        toolkit |-> None],
       [keyword |-> <<"c", "a", "l", "e", "n", "d", "a", "r">>,
        toolkit |-> Some(<<"G", "O", "O", "G", "L", "E", "C", "A", "L", "E", "N", "D", "A", "R">>)],
       [keyword |-> <<"d", "r", "i", "v", "e">>,
        toolkit |-> Some(<<"G", "O", "O", "G", "L", "E", "D", "R", "I", "V", "E">>)],
       [keyword |-> <<"s", "h", "e", "e", "t", "s">>,
        toolkit |-> Some(<<"G", "O", "O", "G", "L", "E", "S", "H", "E", "E", "T", "S">>)],
       [keyword |-> <<"j", "i", "r", "a">>,
        toolkit |-> Some(<<"J", "I", "R", "A">>)],
       [keyword |-> <<"t", "r", "e", "l", "l", "o">>,
        toolkit |-> Some(<<"T", "R", "E", "L", "L", "O">>)] >>

\* The loop of lines 182-184: the toolkits whose keyword occurs in the
\* lower-cased message.
mentioned_toolkits(user_message) ==
    LET message_lower == lower(user_message)
    IN  { toolkit_keywords[i].toolkit.v : i \in
            { j \in 1..Len(toolkit_keywords) :
                /\ contains(message_lower, toolkit_keywords[j].keyword)
                /\ truthy(toolkit_keywords[j].toolkit) } }

\* The loop of lines 190-195, as a left-to-right pass that appends each tool
\* to `prioritized` or to `others`.
RECURSIVE partition_tools(_, _, _, _)
partition_tools(tools, mentioned, prioritized, others) ==
    IF tools = <<>>
    THEN [prioritized |-> prioritized, others |-> others]
    ELSE LET tool == Head(tools)
             toolkit == _extract_toolkit_from_tool(tool)
         IN  IF truthy(toolkit) /\ toolkit.v \in mentioned
             THEN partition_tools(Tail(tools), mentioned,
                                  Append(prioritized, tool), others)
             ELSE partition_tools(Tail(tools), mentioned,
                                  prioritized, Append(others, tool))

\* A Python slice xs[:n] for n >= 0.
slice_to(xs, n) == SubSeq(xs, 1, IF n < Len(xs) THEN n ELSE Len(xs))

\* Mutant: a list within the cap is ranked as well.
_prioritize_always_ranks(tools, user_message, max_tools) ==
    LET parts == partition_tools(tools, mentioned_toolkits(user_message),
                                 <<>>, <<>>)
        result == slice_to(parts.prioritized, max_tools)
        remaining_slots == max_tools - Len(result)
    IN  IF remaining_slots > 0
        THEN result \o slice_to(parts.others, remaining_slots)
        ELSE result

\* Mutant: the free slots are not filled with the other tools.
_prioritize_without_padding(tools, user_message, max_tools) ==
    IF Len(tools) <= max_tools
    THEN tools
    ELSE slice_to(partition_tools(tools, mentioned_toolkits(user_message),
                                  <<>>, <<>>).prioritized, max_tools)

_prioritize_and_limit_tools(tools, user_message, max_tools) ==
    IF Len(tools) <= max_tools
    THEN tools
    ELSE LET parts == partition_tools(tools, mentioned_toolkits(user_message),
                                      <<>>, <<>>)
             result == slice_to(parts.prioritized, max_tools)
             remaining_slots == max_tools - Len(result)
         IN  IF remaining_slots > 0
             THEN result \o slice_to(parts.others, remaining_slots)
             ELSE result

\* ----------------------------------------------------------------- state
VARIABLES
    conversations,          \* the Store: conversation id -> history (turns)
    hs,                     \* Handle call -> the state of its generator
    composio_initialized,   \* is the Tool Provider available
    gateway,                \* "free"; "once": one reply with intents; "looping": always intents
    startsLeft,             \* Handle calls still to be made
    richLeft,               \* freely chosen tool-call intents still allowed
    loopLeft,               \* replies of the looping gateway stub still allowed
    faultsLeft,             \* collaborator faults still allowed
    p_tools, p_message, p_max_tools, p_result   \* a call of the prioritizer

vars == <<conversations, hs, composio_initialized, gateway, startsLeft, richLeft, loopLeft,
          faultsLeft, p_tools, p_message, p_max_tools, p_result>>

p_vars == <<p_tools, p_message, p_max_tools, p_result>>

env_vars == <<composio_initialized, gateway, startsLeft>>

Handles == 1..MaxHandles

\* Where a generator can be suspended: at an awaited collaborator call
\* ("a_...") or at a yield whose event the consumer has received ("y_...").
Awaits == {"a_llm", "a_search", "a_status", "a_authorize", "a_wait", "a_execute"}

Yields == {"y_tool_call", "y_tool_search", "y_tool_result", "y_connection_status",
           "y_established", "y_required", "y_waiting", "y_auth_error",
           "y_auth_tool_result", "y_reply", "y_error"}

Active(h) == hs[h].pc \in Awaits \cup Yields

\* ----------------------------------------------------- the collaborators
\* Search queries, by index; 0 is a missing or empty query.
QUERIES == << <<"f", "i", "n", "d", " ", "g", "m", "a", "i", "l", " ", "t", "o", "o", "l", "s">> >>

GITHUB_A == CHOOSE i \in 1..Len(NAME) : NAME[i] = <<"G", "I", "T", "H", "U", "B", "_", "A">>

PING == CHOOSE i \in 1..Len(NAME) : NAME[i] = <<"P", "I", "N", "G">>

\* What ToolProvider.Discover may return: nothing, one tool, a list longer
\* than MAX_TOOLS_PER_REQUEST, and a short list that overlaps the others.
CATALOGUE ==
    { <<>>,
      <<GITHUB_A>>,
      <<2, 3, 4, 5, 6, 7, 8, 9, 10, 11, 12, 13, 14, 15>>,
      <<16, GITHUB_A, 17>> }

\* What get_connected_toolkits may return, as toolkit slugs.
CONNECTED == { <<>>, << <<"g", "i", "t", "h", "u", "b">> >> }

CONTENTS == {"answer"}

\* The intents a model reply may carry.
IntentKinds ==
    { [name |-> SEARCH, arguments |-> q] : q \in 0..Len(QUERIES) }
    \cup { [name |-> n, arguments |-> 0] : n \in {GITHUB_A, PING} }

\* Call-ids are unique within one reply; replies are free to reuse them.
IdLists(n) ==
    { ids \in [1..n -> 1..MaxCallIds] : \A i, j \in 1..n : i < j => ids[i] < ids[j] }

ToolCallLists ==
    UNION { { [i \in 1..n |-> [id |-> ids[i], name |-> ks[i].name,
                               arguments |-> ks[i].arguments]] :
                ids \in IdLists(n), ks \in [1..n -> IntentKinds] } :
            n \in 1..MaxIntents }

\* chat_with_tools_raw: content, and tool calls or none.
RichReplies == { [content |-> "partial", tool_calls |-> tcs] : tcs \in ToolCallLists }

\* The gateway stub that always returns a tool-call intent.
LoopReply ==
    [content |-> "partial",
     tool_calls |-> << [id |-> 1, name |-> SEARCH, arguments |-> 0] >>]

\* chat_raw: content only.
ContentReplies == { [content |-> c, tool_calls |-> <<>>] : c \in CONTENTS }

\* ------------------------------------------------- the Conversation Store
SystemTurn == [role |-> "system", by |-> 0]

\* create_conversation: an existing id is returned unchanged; otherwise a
\* conversation is created, holding the system instruction.
create_conversation(convs, conversation_id) ==
    IF conversation_id \in 1..Len(convs)
    THEN [cid |-> conversation_id, convs |-> convs]
    ELSE [cid |-> Len(convs) + 1, convs |-> Append(convs, <<SystemTurn>>)]

\* add_message: append a turn of a role with its content (`by` records the
\* Handle call that appended the turn; the program does not store it).
add_message(convs, cid, role, content, h) ==
    [convs EXCEPT ![cid] = Append(@, [role |-> role, content |-> content, by |-> h])]

\* ------------------------------------------------------ handle_message
NoResponse == [content |-> "", tool_calls |-> <<>>]

NoResult == [successful |-> FALSE, error |-> "unset"]

NoStatus == [connected |-> FALSE, requires_auth |-> FALSE, status |-> "unset"]

IdleHandle ==
    [pc |-> "idle", cid |-> 0, message |-> 0, available_tools |-> <<>>,
     llm_response |-> NoResponse, iterations |-> 0, tc |-> 0,
     tool_result |-> NoResult, toolkit |-> None, conn_status |-> NoStatus,
     auth_response |-> "unset", auth_successful |-> FALSE,
     events |-> <<>>, calls |-> <<>>]

\* yield: the consumer receives the event and the generator is suspended.
Yield(s, event, pc) == [s EXCEPT !.events = Append(@, event), !.pc = pc]

\* await: the collaborator call is issued and the generator is suspended
\* (`calls` records each call with the number of events emitted before it,
\* the round and the intent it was made for, and whether it raised; the
\* program keeps no such record).
Await(s, op, pc) ==
    [s EXCEPT !.calls = Append(@, [op |-> op, at |-> Len(s.events),
                                   round |-> s.iterations, tc |-> s.tc,
                                   raised |-> FALSE]),
              !.pc = pc]

\* The awaited call raises instead of returning.
Raised(s) == [s EXCEPT !.calls[Len(s.calls)].raised = TRUE]

\* Mutant: the turn is stored as add_message stores it, without the intents.
assistant_message_without_intents(llm_response, h) ==
    [role |-> "assistant", content |-> llm_response.content, by |-> h]

\* Lines 386-403: the Assistant turn that carries the reply's intents.
assistant_message(llm_response, h) ==
    [role |-> "assistant", content |-> llm_response.content,
     tool_calls |-> [i \in 1..Len(llm_response.tool_calls) |->
                        [id |-> llm_response.tool_calls[i].id,
                         name |-> llm_response.tool_calls[i].name,
                         arguments |-> llm_response.tool_calls[i].arguments]],
     by |-> h]

\* Lines 544-549 and 573-578: the ToolResult turn of an intent.
tool_response_message(tc, tool_result, h) ==
    [role |-> "tool", tool_call_id |-> tc.id, name |-> tc.name,
     content |-> tool_result, by |-> h]

\* Mutant: the cap is tested with <= and allows one more round.
loop_continues_one_more(llm_response, iterations) ==
    llm_response.tool_calls # <<>> /\ iterations <= MAX_TOOL_ITERATIONS

\* Mutant: the cap is not tested.
loop_continues_uncapped(llm_response, iterations) ==
    llm_response.tool_calls # <<>>

\* Line 381: the loop condition.
loop_continues(llm_response, iterations) ==
    llm_response.tool_calls # <<>> /\ iterations < MAX_TOOL_ITERATIONS

\* Mutant: the intent is not announced.
BeginIntent_unannounced(s, k) == [s EXCEPT !.tc = k, !.pc = "y_tool_call"]

\* Lines 408-416: the top of the for body, up to the tool_call event.
BeginIntent(s, k) ==
    Yield([s EXCEPT !.tc = k],
          [type |-> "tool_call", name |-> s.llm_response.tool_calls[k].name,
           arguments |-> s.llm_response.tool_calls[k].arguments],
          "y_tool_call")

\* Mutant: the follow-up model call is made twice.
NextIntentOrModel_asks_twice(s) ==
    IF s.tc < Len(s.llm_response.tool_calls)
    THEN BeginIntent(s, s.tc + 1)
    ELSE Await(Await(s, "llm", "a_llm"), "llm", "a_llm")

\* The end of the for body: the next intent, or lines 583-590, the
\* follow-up model call.
NextIntentOrModel(s) ==
    IF s.tc < Len(s.llm_response.tool_calls)
    THEN BeginIntent(s, s.tc + 1)
    ELSE Await(s, "llm", "a_llm")

\* The tool result of an intent that could not be carried out, and of one
\* that was.
failed_result(error) == [successful |-> FALSE, error |-> error]

ok_result == [successful |-> TRUE, error |-> ""]

\* Mutant: the prioritized tools are appended without the membership test.
merge_tools_extends(available_tools, prioritized_tools) ==
    available_tools \o prioritized_tools

\* Lines 461-463: add the prioritized tools that are not yet visible.
RECURSIVE merge_tools(_, _)
merge_tools(available_tools, prioritized_tools) ==
    IF prioritized_tools = <<>>
    THEN available_tools
    ELSE LET tool == Head(prioritized_tools)
         IN  merge_tools(IF \E i \in 1..Len(available_tools) : available_tools[i] = tool
                         THEN available_tools
                         ELSE Append(available_tools, tool),
                         Tail(prioritized_tools))

\* Lines 441-445: the toolkits of the tools found.
toolkits_in_results(found_tools) ==
    { _extract_toolkit_from_tool(found_tools[i]).v : i \in
        { j \in 1..Len(found_tools) : truthy(_extract_toolkit_from_tool(found_tools[j])) } }

\* Lines 224-234: is the toolkit among the connected ones.
connection_status(connected_toolkits, toolkit) ==
    LET is_connected == \E i \in 1..Len(connected_toolkits) :
                            lower(connected_toolkits[i]) = lower(toolkit)
    IN  [connected |-> is_connected, requires_auth |-> ~is_connected,
         status |-> IF is_connected THEN "connected" ELSE "not_connected"]

\* The intent the for loop is at.
Intent(s) == s.llm_response.tool_calls[s.tc]

Set(h, s) == hs' = [hs EXCEPT ![h] = s]

Fault == faultsLeft > 0 /\ faultsLeft' = faultsLeft - 1

\* Mutant: handle_message puts the system instruction into the history
\* itself when it resumes a conversation.
StartBody_reinserts(h, conversation_id, message) ==
    /\ hs[h].pc = "idle"
    /\ \A g \in 1..(h - 1) : hs[g].pc # "idle"
    /\ startsLeft > 0
    /\ startsLeft' = startsLeft - 1
    /\ LET c == create_conversation(conversations, conversation_id)
           resumed == IF conversation_id \in 1..Len(conversations)
                      THEN [c.convs EXCEPT ![c.cid] = Append(@, SystemTurn)]
                      ELSE c.convs
       IN  /\ conversations' = add_message(resumed, c.cid, "user", message, h)
           /\ Set(h, Await([hs[h] EXCEPT
                               !.cid = c.cid, !.message = message,
                               !.available_tools =
                                   IF composio_initialized THEN <<SEARCH>> ELSE <<>>],
                           "llm", "a_llm"))
    /\ UNCHANGED <<composio_initialized, gateway, richLeft, loopLeft, faultsLeft, p_vars>>

\* Lines 344-373: create or resume the conversation, append the User turn,
\* offer the Search tool, and call the model.
StartBody(h, conversation_id, message) ==
    /\ hs[h].pc = "idle"
    /\ \A g \in 1..(h - 1) : hs[g].pc # "idle"
    /\ startsLeft > 0
    /\ startsLeft' = startsLeft - 1
    /\ LET c == create_conversation(conversations, conversation_id)
       IN  /\ conversations' = add_message(c.convs, c.cid, "user", message, h)
           /\ Set(h, Await([hs[h] EXCEPT
                               !.cid = c.cid, !.message = message,
                               !.available_tools =
                                   IF composio_initialized THEN <<SEARCH>> ELSE <<>>],
                           "llm", "a_llm"))
    /\ UNCHANGED <<composio_initialized, gateway, richLeft, loopLeft, faultsLeft, p_vars>>

\* A Handle call made while no other call is in progress.
Start(h) ==
    /\ \A g \in Handles : ~Active(g)
    /\ \E conversation_id \in 0..Len(conversations), message \in 1..2 :
           StartBody(h, conversation_id, message)

\* A Handle call made while another call is in progress.
StartOverlapping(h) ==
    /\ \E g \in Handles : Active(g)
    /\ \E conversation_id \in 0..Len(conversations), message \in 1..2 :
           StartBody(h, conversation_id, message)

\* Mutant: the failure is logged and the stream ends without an event.
ModelRaises_silent(h) ==
    /\ hs[h].pc = "a_llm"
    /\ gateway # "looping"
    /\ Set(h, [Raised(hs[h]) EXCEPT !.pc = "done"])
    /\ UNCHANGED <<conversations, env_vars, richLeft, loopLeft,
                   faultsLeft, p_vars>>

\* Mutant: a failed model call is retried.
ModelRaises_retries(h) ==
    /\ hs[h].pc = "a_llm"
    /\ gateway # "looping"
    /\ Set(h, Await(Raised(hs[h]), "llm", "a_llm"))
    /\ UNCHANGED <<conversations, env_vars, richLeft, loopLeft,
                   faultsLeft, p_vars>>

\* Mutant: the failure is also stored as an Assistant turn.
ModelRaises_stored(h) ==
    /\ hs[h].pc = "a_llm"
    /\ gateway # "looping"
    /\ conversations' = add_message(conversations, hs[h].cid, "assistant", "LLM error", h)
    /\ Set(h, Yield(Raised(hs[h]), [type |-> "error", message |-> "LLM error"], "y_error"))
    /\ UNCHANGED <<env_vars, richLeft, loopLeft, faultsLeft, p_vars>>

\* Lines 374-377 and 591-595: the model call raises.
ModelRaises(h) ==
    /\ hs[h].pc = "a_llm"
    /\ gateway # "looping"
    /\ Set(h, Yield(Raised(hs[h]), [type |-> "error", message |-> "LLM error"], "y_error"))
    /\ UNCHANGED <<conversations, env_vars, richLeft, loopLeft,
                   faultsLeft, p_vars>>

\* Mutant: the final reply is emitted without being stored.
ModelReplied_unstored(h, llm_response) ==
    LET s == [hs[h] EXCEPT !.llm_response = llm_response]
    IN  IF loop_continues(llm_response, s.iterations)
        THEN /\ conversations' =
                    [conversations EXCEPT ![s.cid] =
                        Append(@, assistant_message(llm_response, h))]
             /\ Set(h, BeginIntent([s EXCEPT !.iterations = @ + 1], 1))
        ELSE /\ conversations' = conversations
             /\ Set(h, Yield(s, [type |-> "reply", conversation_id |-> s.cid,
                                 content |-> llm_response.content], "y_reply"))

\* Mutant: a reply that still carries intents when the cap is reached is
\* reported as a failure.
ModelReplied_cap_is_error(h, llm_response) ==
    LET s == [hs[h] EXCEPT !.llm_response = llm_response]
    IN  IF loop_continues(llm_response, s.iterations)
        THEN /\ conversations' =
                    [conversations EXCEPT ![s.cid] =
                        Append(@, assistant_message(llm_response, h))]
             /\ Set(h, BeginIntent([s EXCEPT !.iterations = @ + 1], 1))
        ELSE IF llm_response.tool_calls # <<>>
        THEN /\ conversations' = conversations
             /\ Set(h, Yield(s, [type |-> "error", message |-> "LLM error"], "y_error"))
        ELSE /\ conversations' =
                    add_message(conversations, s.cid, "assistant",
                                llm_response.content, h)
             /\ Set(h, Yield(s, [type |-> "reply", conversation_id |-> s.cid,
                                 content |-> llm_response.content], "y_reply"))

\* Lines 380-416 and 597-609: the model has replied.  Either a round begins
\* (the Assistant turn with the intents is appended and the first intent is
\* announced), or the reply is stored and emitted as the final one.
ModelReplied(h, llm_response) ==
    LET s == [hs[h] EXCEPT !.llm_response = llm_response]
    IN  IF loop_continues(llm_response, s.iterations)
        THEN /\ conversations' =
                    [conversations EXCEPT ![s.cid] =
                        Append(@, assistant_message(llm_response, h))]
             /\ Set(h, BeginIntent([s EXCEPT !.iterations = @ + 1], 1))
        ELSE /\ conversations' =
                    add_message(conversations, s.cid, "assistant",
                                llm_response.content, h)
             /\ Set(h, Yield(s, [type |-> "reply", conversation_id |-> s.cid,
                                 content |-> llm_response.content], "y_reply"))

\* chat_raw (no tools offered) or chat_with_tools_raw answers with content only.
ModelRepliesContent(h) ==
    /\ hs[h].pc = "a_llm"
    /\ gateway # "looping"
    /\ \E r \in ContentReplies : ModelReplied(h, r)
    /\ UNCHANGED <<env_vars, richLeft, loopLeft, faultsLeft, p_vars>>

\* Mutant: the plain completion returns tool calls as well.
ModelRepliesToolCalls_plain_too(h) ==
    /\ hs[h].pc = "a_llm"
    /\ \E r \in RichReplies :
         /\ Len(r.tool_calls) <= richLeft
         /\ richLeft' = IF gateway = "once" THEN 0 ELSE richLeft - Len(r.tool_calls)
         /\ ModelReplied(h, r)
    /\ UNCHANGED <<env_vars, loopLeft, faultsLeft, p_vars>>

\* chat_with_tools_raw answers with freely chosen intents.
ModelRepliesToolCalls(h) ==
    /\ hs[h].pc = "a_llm"
    /\ hs[h].available_tools # <<>>
    /\ \E r \in RichReplies :
         /\ Len(r.tool_calls) <= richLeft
         /\ richLeft' = IF gateway = "once" THEN 0 ELSE richLeft - Len(r.tool_calls)
         /\ ModelReplied(h, r)
    /\ UNCHANGED <<env_vars, loopLeft, faultsLeft, p_vars>>

\* chat_with_tools_raw of the stub that always asks for a tool call.
ModelRepliesLooping(h) ==
    /\ hs[h].pc = "a_llm"
    /\ hs[h].available_tools # <<>>
    /\ loopLeft > 0
    /\ loopLeft' = loopLeft - 1
    /\ ModelReplied(h, LoopReply)
    /\ UNCHANGED <<env_vars, richLeft, faultsLeft, p_vars>>

\* Mutant: the query is not tested and an empty one is sent to discovery.
Dispatch_searches_anyway(h) ==
    LET s == hs[h]
        tool_name == NAME[Intent(s).name]
        toolkit == _extract_toolkit_from_tool_name(tool_name)
    IN  /\ s.pc = "y_tool_call"
        /\ IF tool_name = NAME[SEARCH]
           THEN Set(h, Await(s, "search_tools", "a_search"))
           ELSE IF truthy(toolkit)
                THEN Set(h, Await([s EXCEPT !.toolkit = toolkit],
                                  "get_connected_toolkits", "a_status"))
                ELSE Set(h, Await([s EXCEPT !.toolkit = toolkit],
                                  "execute_tool_for_user", "a_execute"))
        /\ UNCHANGED <<conversations, env_vars, richLeft, loopLeft,
                       faultsLeft, p_vars>>

\* Lines 418-427 and 502-508, 553-561: after the tool_call event, dispatch on
\* the intent's name, up to the first collaborator call or event.
Dispatch(h) ==
    LET s == hs[h]
        tool_name == NAME[Intent(s).name]
        toolkit == _extract_toolkit_from_tool_name(tool_name)
    IN  /\ s.pc = "y_tool_call"
        /\ IF tool_name = NAME[SEARCH]
           THEN IF Intent(s).arguments = 0
                THEN LET r == failed_result("Missing query parameter")
                     IN  Set(h, Yield([s EXCEPT !.tool_result = r],
                                      [type |-> "tool_result", name |-> Intent(s).name,
                                       result |-> r], "y_tool_result"))
                ELSE Set(h, Await(s, "search_tools", "a_search"))
           ELSE IF truthy(toolkit)
                THEN Set(h, Await([s EXCEPT !.toolkit = toolkit],
                                  "get_connected_toolkits", "a_status"))
                ELSE Set(h, Await([s EXCEPT !.toolkit = toolkit],
                                  "execute_tool_for_user", "a_execute"))
        /\ UNCHANGED <<conversations, env_vars, richLeft, loopLeft,
                       faultsLeft, p_vars>>

\* Mutant: the search query is the relevance signal of the prioritizer.
SearchReturns_by_query(h) ==
    /\ hs[h].pc = "a_search"
    /\ \E found_tools \in CATALOGUE :
         LET s == hs[h]
             prioritized_tools ==
                 _prioritize_and_limit_tools(found_tools, QUERIES[Intent(s).arguments],
                                             MAX_TOOLS_PER_REQUEST)
         IN  Set(h, Yield([s EXCEPT
                              !.available_tools = merge_tools(@, prioritized_tools),
                              !.tool_result = ok_result],
                          [type |-> "tool_search", query |-> Intent(s).arguments,
                           tools_found |-> Len(found_tools),
                           toolkits |-> toolkits_in_results(found_tools)],
                          "y_tool_search"))
    /\ UNCHANGED <<conversations, env_vars, richLeft, loopLeft,
                   faultsLeft, p_vars>>

\* Lines 432-493: discovery returned; prioritize, merge, emit tool_search.
SearchReturns(h) ==
    /\ hs[h].pc = "a_search"
    /\ \E found_tools \in CATALOGUE :
         LET s == hs[h]
             prioritized_tools ==
                 _prioritize_and_limit_tools(found_tools, MESSAGES[s.message],
                                             MAX_TOOLS_PER_REQUEST)
         IN  Set(h, Yield([s EXCEPT
                              !.available_tools = merge_tools(@, prioritized_tools),
                              !.tool_result = ok_result],
                          [type |-> "tool_search", query |-> Intent(s).arguments,
                           tools_found |-> Len(found_tools),
                           toolkits |-> toolkits_in_results(found_tools)],
                          "y_tool_search"))
    /\ UNCHANGED <<conversations, env_vars, richLeft, loopLeft,
                   faultsLeft, p_vars>>

\* Mutant: a failed discovery resets the visible tools to the Search tool.
SearchRaises_drops_tools(h) ==
    /\ hs[h].pc = "a_search"
    /\ Fault
    /\ LET r == failed_result("search_tools raised")
       IN  Set(h, Yield([Raised(hs[h]) EXCEPT !.tool_result = r,
                                              !.available_tools = <<SEARCH>>],
                        [type |-> "tool_result", name |-> Intent(hs[h]).name,
                         result |-> r], "y_tool_result"))
    /\ UNCHANGED <<conversations, env_vars, richLeft, loopLeft, p_vars>>

\* Mutant: the exception is swallowed and the search counts as one that
\* found nothing.
SearchRaises_swallowed(h) ==
    /\ hs[h].pc = "a_search"
    /\ Fault
    /\ Set(h, Yield([Raised(hs[h]) EXCEPT !.tool_result = ok_result],
                    [type |-> "tool_search", query |-> Intent(hs[h]).arguments,
                     tools_found |-> 0, toolkits |-> {}],
                    "y_tool_search"))
    /\ UNCHANGED <<conversations, env_vars, richLeft, loopLeft, p_vars>>

\* Lines 495-501 and 565-568: discovery raised.
SearchRaises(h) ==
    /\ hs[h].pc = "a_search"
    /\ Fault
    /\ LET r == failed_result("search_tools raised")
       IN  Set(h, Yield([Raised(hs[h]) EXCEPT !.tool_result = r],
                        [type |-> "tool_result", name |-> Intent(hs[h]).name,
                         result |-> r], "y_tool_result"))
    /\ UNCHANGED <<conversations, env_vars, richLeft, loopLeft, p_vars>>

\* Lines 565-568 after the tool_search event: emit tool_result.
AfterToolSearch(h) ==
    /\ hs[h].pc = "y_tool_search"
    /\ Set(h, Yield(hs[h], [type |-> "tool_result", name |-> Intent(hs[h]).name,
                            result |-> hs[h].tool_result], "y_tool_result"))
    /\ UNCHANGED <<conversations, env_vars, richLeft, loopLeft,
                   faultsLeft, p_vars>>

\* Lines 573-590 after the tool_result event: append the ToolResult turn, then
\* go on with the next intent or call the model again.
RecordToolResult(h) ==
    /\ hs[h].pc = "y_tool_result"
    /\ conversations' =
           [conversations EXCEPT ![hs[h].cid] =
               Append(@, tool_response_message(Intent(hs[h]), hs[h].tool_result, h))]
    /\ Set(h, NextIntentOrModel(hs[h]))
    /\ UNCHANGED <<env_vars, richLeft, loopLeft, faultsLeft, p_vars>>

\* The connection_status event of lines 510-517.
StatusEvent(s, conn_status) ==
    [type |-> "connection_status", toolkit |-> s.toolkit.v,
     connected |-> conn_status.connected,
     requires_auth |-> conn_status.requires_auth]

\* Lines 219-234 and 510-517: the connected toolkits were returned.
StatusReturns(h) ==
    /\ hs[h].pc = "a_status"
    /\ \E connected_toolkits \in CONNECTED :
         LET conn_status == connection_status(connected_toolkits, hs[h].toolkit.v)
         IN  Set(h, Yield([hs[h] EXCEPT !.conn_status = conn_status],
                          StatusEvent(hs[h], conn_status), "y_connection_status"))
    /\ UNCHANGED <<conversations, env_vars, richLeft, loopLeft,
                   faultsLeft, p_vars>>

\* Mutant: the exception of the status query is not caught and ends the
\* Handle call with a Failed event.
StatusRaises_propagates(h) ==
    /\ hs[h].pc = "a_status"
    /\ Fault
    /\ Set(h, Yield(Raised(hs[h]), [type |-> "error", message |-> "LLM error"],
                    "y_error"))
    /\ UNCHANGED <<conversations, env_vars, richLeft, loopLeft, p_vars>>

\* Lines 235-237 and 510-517: the status query raised.
StatusRaises(h) ==
    /\ hs[h].pc = "a_status"
    /\ Fault
    /\ LET conn_status == [connected |-> FALSE, requires_auth |-> TRUE,
                           status |-> "unknown"]
       IN  Set(h, Yield([Raised(hs[h]) EXCEPT !.conn_status = conn_status],
                        StatusEvent(hs[h], conn_status), "y_connection_status"))
    /\ UNCHANGED <<conversations, env_vars, richLeft, loopLeft, p_vars>>

\* Lines 520-524 and 247-252, or 553-561: after the connection_status event,
\* start the authorization sub-flow or invoke the tool.
AfterStatus(h) ==
    /\ hs[h].pc = "y_connection_status"
    /\ IF ~hs[h].conn_status.connected
       THEN Set(h, Await([hs[h] EXCEPT !.auth_successful = FALSE,
                                         !.auth_response = "unset"],
                         "authorize_toolkit", "a_authorize"))
       ELSE Set(h, Await(hs[h], "execute_tool_for_user", "a_execute"))
    /\ UNCHANGED <<conversations, env_vars, richLeft, loopLeft,
                   faultsLeft, p_vars>>

\* Lines 255-274: authorize returned; no authorization is required, or the
\* user is sent to the redirect URL.
AuthorizeReturns(h) ==
    /\ hs[h].pc = "a_authorize"
    /\ \E status \in {"no_auth_required", "initiated"} :
         LET s == [hs[h] EXCEPT !.auth_response = status]
         IN  IF status = "no_auth_required"
             THEN Set(h, Yield(s, [type |-> "connection_established",
                                   toolkit |-> s.toolkit.v], "y_established"))
             ELSE Set(h, Yield(s, [type |-> "connection_required",
                                   toolkit |-> s.toolkit.v], "y_required"))
    /\ UNCHANGED <<conversations, env_vars, richLeft, loopLeft,
                   faultsLeft, p_vars>>

\* Lines 307-312: authorize raised.
AuthorizeRaises(h) ==
    /\ hs[h].pc = "a_authorize"
    /\ Fault
    /\ Set(h, Yield(Raised(hs[h]), [type |-> "error", message |-> "Authorization error",
                                     toolkit |-> hs[h].toolkit.v],
                    "y_auth_error"))
    /\ UNCHANGED <<conversations, env_vars, richLeft, loopLeft, p_vars>>

\* Lines 276-283: after connection_required, emit connection_waiting.
AfterRequired(h) ==
    /\ hs[h].pc = "y_required"
    /\ Set(h, Yield(hs[h], [type |-> "connection_waiting",
                            toolkit |-> hs[h].toolkit.v], "y_waiting"))
    /\ UNCHANGED <<conversations, env_vars, richLeft, loopLeft,
                   faultsLeft, p_vars>>

\* Mutant: the sub-flow does not wait for the connection and reports it as
\* made.
AfterWaiting_no_wait(h) ==
    /\ hs[h].pc = "y_waiting"
    /\ Set(h, Yield(hs[h], [type |-> "connection_established",
                            toolkit |-> hs[h].toolkit.v], "y_established"))
    /\ UNCHANGED <<conversations, env_vars, richLeft, loopLeft,
                   faultsLeft, p_vars>>

\* Lines 285-289: after connection_waiting, wait for the connection.
AfterWaiting(h) ==
    /\ hs[h].pc = "y_waiting"
    /\ Set(h, Await(hs[h], "wait_for_connection", "a_wait"))
    /\ UNCHANGED <<conversations, env_vars, richLeft, loopLeft,
                   faultsLeft, p_vars>>

\* Lines 291-298: the wait ended with the connection made.
WaitConnected(h) ==
    /\ hs[h].pc = "a_wait"
    /\ Set(h, Yield(hs[h], [type |-> "connection_established",
                            toolkit |-> hs[h].toolkit.v], "y_established"))
    /\ UNCHANGED <<conversations, env_vars, richLeft, loopLeft,
                   faultsLeft, p_vars>>

\* Lines 299-312: the wait ended with another status, or raised.
WaitFails(h) ==
    /\ hs[h].pc = "a_wait"
    /\ Fault
    /\ \E message \in {"Failed to connect", "Authorization error"} :
         Set(h, Yield(IF message = "Authorization error" THEN Raised(hs[h]) ELSE hs[h],
                      [type |-> "error", message |-> message,
                       toolkit |-> hs[h].toolkit.v], "y_auth_error"))
    /\ UNCHANGED <<conversations, env_vars, richLeft, loopLeft, p_vars>>

\* Mutant: the sub-flow does not return after "no authorization required"
\* and goes on to ask for the authorization.
AfterEstablished_no_return(h) ==
    /\ hs[h].pc = "y_established"
    /\ IF hs[h].auth_response = "no_auth_required"
       THEN Set(h, Yield([hs[h] EXCEPT !.auth_successful = TRUE],
                         [type |-> "connection_required",
                          toolkit |-> hs[h].toolkit.v], "y_required"))
       ELSE Set(h, Await([hs[h] EXCEPT !.auth_successful = TRUE],
                         "execute_tool_for_user", "a_execute"))
    /\ UNCHANGED <<conversations, env_vars, richLeft, loopLeft,
                   faultsLeft, p_vars>>

\* Lines 527-528, 532 and 553-561: after connection_established the
\* sub-flow has succeeded and the tool is invoked.
AfterEstablished(h) ==
    /\ hs[h].pc = "y_established"
    /\ Set(h, Await([hs[h] EXCEPT !.auth_successful = TRUE],
                    "execute_tool_for_user", "a_execute"))
    /\ UNCHANGED <<conversations, env_vars, richLeft, loopLeft,
                   faultsLeft, p_vars>>

\* Mutant: a failed authorization is recorded in the history but its
\* tool_result event is not emitted.
AfterAuthError_unreported(h) ==
    /\ hs[h].pc = "y_auth_error"
    /\ Set(h, [hs[h] EXCEPT !.tool_result = failed_result("Authorization failed"),
                            !.pc = "y_auth_tool_result"])
    /\ UNCHANGED <<conversations, env_vars, richLeft, loopLeft,
                   faultsLeft, p_vars>>

\* Lines 529-541: after the sub-flow's error event, leave the sub-flow and
\* emit the failed tool_result.
AfterAuthError(h) ==
    /\ hs[h].pc = "y_auth_error"
    /\ LET r == failed_result("Authorization failed")
       IN  Set(h, Yield([hs[h] EXCEPT !.tool_result = r],
                        [type |-> "tool_result", name |-> Intent(hs[h]).name,
                         result |-> r], "y_auth_tool_result"))
    /\ UNCHANGED <<conversations, env_vars, richLeft, loopLeft,
                   faultsLeft, p_vars>>

\* Mutant: the failed authorization is reported but no ToolResult turn is
\* appended for it.
RecordAuthFailure_unrecorded(h) ==
    /\ hs[h].pc = "y_auth_tool_result"
    /\ Set(h, NextIntentOrModel(hs[h]))
    /\ UNCHANGED <<conversations, env_vars, richLeft, loopLeft, faultsLeft, p_vars>>

\* Mutant: the failed authorization leaves the for loop (break instead of
\* continue) and the model is called with the other intents unprocessed.
RecordAuthFailure_breaks(h) ==
    /\ hs[h].pc = "y_auth_tool_result"
    /\ conversations' =
           [conversations EXCEPT ![hs[h].cid] =
               Append(@, tool_response_message(Intent(hs[h]), hs[h].tool_result, h))]
    /\ Set(h, Await(hs[h], "llm", "a_llm"))
    /\ UNCHANGED <<env_vars, richLeft, loopLeft, faultsLeft, p_vars>>

\* Lines 543-551: append the failed ToolResult turn and continue with the
\* next intent.
RecordAuthFailure(h) ==
    /\ hs[h].pc = "y_auth_tool_result"
    /\ conversations' =
           [conversations EXCEPT ![hs[h].cid] =
               Append(@, tool_response_message(Intent(hs[h]), hs[h].tool_result, h))]
    /\ Set(h, NextIntentOrModel(hs[h]))
    /\ UNCHANGED <<env_vars, richLeft, loopLeft, faultsLeft, p_vars>>

\* Lines 554-568: the invocation returned the provider's result.
ExecuteReturns(h) ==
    /\ hs[h].pc = "a_execute"
    /\ Set(h, Yield([hs[h] EXCEPT !.tool_result = ok_result],
                    [type |-> "tool_result", name |-> Intent(hs[h]).name,
                     result |-> ok_result], "y_tool_result"))
    /\ UNCHANGED <<conversations, env_vars, richLeft, loopLeft,
                   faultsLeft, p_vars>>

\* Mutant: the exception of the invocation is not wrapped into a result; it
\* ends the Handle call with a Failed event.
ExecuteFails_propagates(h) ==
    /\ hs[h].pc = "a_execute"
    /\ Fault
    /\ Set(h, Yield(Raised(hs[h]),
                    [type |-> "error", message |-> "execute_tool_for_user raised"],
                    "y_error"))
    /\ UNCHANGED <<conversations, env_vars, richLeft, loopLeft, p_vars>>

\* Lines 554-568: the invocation returned a failed result, or raised and
\* the exception was wrapped into one.
ExecuteFails(h) ==
    /\ hs[h].pc = "a_execute"
    /\ Fault
    /\ \E error \in {"tool failed", "execute_tool_for_user raised"} :
         LET r == failed_result(error)
             s == IF error = "execute_tool_for_user raised" THEN Raised(hs[h]) ELSE hs[h]
         IN  Set(h, Yield([s EXCEPT !.tool_result = r],
                          [type |-> "tool_result", name |-> Intent(hs[h]).name,
                           result |-> r], "y_tool_result"))
    /\ UNCHANGED <<conversations, env_vars, richLeft, loopLeft, p_vars>>

\* Lines 377, 595 and 609: the consumer asks for the event after the last.
Finish(h) ==
    /\ hs[h].pc \in {"y_reply", "y_error"}
    /\ Set(h, [hs[h] EXCEPT !.pc = "done"])
    /\ UNCHANGED <<conversations, env_vars, richLeft, loopLeft,
                   faultsLeft, p_vars>>

\* The consumer closes the stream: GeneratorExit at a yield, CancelledError
\* at an await; neither is an Exception, so no handler of the generator runs.
Cancel(h) ==
    /\ Active(h)
    /\ Set(h, [hs[h] EXCEPT !.pc = "cancelled"])
    /\ UNCHANGED <<conversations, env_vars, richLeft, loopLeft,
                   faultsLeft, p_vars>>

\* One call of the prioritizer on the inputs drawn by InitPrio.
Prioritize ==
    /\ p_result = None
    /\ p_result' = Some(_prioritize_and_limit_tools(p_tools, MESSAGES[p_message],
                                                    p_max_tools))
    /\ UNCHANGED <<conversations, hs, env_vars, richLeft, loopLeft,
                   faultsLeft, p_tools, p_message, p_max_tools>>

\* ------------------------------------------------------- specifications
NoPrioritizerCall ==
    /\ p_tools = <<>>
    /\ p_message = 1
    /\ p_max_tools = 0
    /\ p_result = None

NoHandleCall ==
    /\ conversations = <<>>
    /\ hs = [h \in Handles |-> IdleHandle]

\* One uncancelled Handle call on an empty Store.  The Model Gateway is free
\* in its replies and the Tool Provider dependable, or the provider may
\* fail, or the gateway is the stub that asks for a tool call on every call.
Init ==
    /\ NoHandleCall
    /\ NoPrioritizerCall
    /\ composio_initialized \in BOOLEAN
    /\ startsLeft = 1
    /\ \/ /\ gateway = "free"
          /\ richLeft = MaxFreeIntents /\ faultsLeft = 0 /\ loopLeft = 0
       \/ /\ gateway = "free"
          /\ richLeft = MaxFaultyIntents /\ faultsLeft = MaxFaults /\ loopLeft = 0
       \/ /\ gateway = "looping" /\ composio_initialized
          /\ richLeft = 0 /\ faultsLeft = 0
          /\ loopLeft = MAX_TOOL_ITERATIONS + MaxExtraReplies

Step(h) ==
    \/ ModelRaises(h)
    \/ ModelRepliesContent(h)
    \/ ModelRepliesToolCalls(h)
    \/ ModelRepliesLooping(h)
    \/ Dispatch(h)
    \/ SearchReturns(h)
    \/ SearchRaises(h)
    \/ AfterToolSearch(h)
    \/ RecordToolResult(h)
    \/ StatusReturns(h)
    \/ StatusRaises(h)
    \/ AfterStatus(h)
    \/ AuthorizeReturns(h)
    \/ AuthorizeRaises(h)
    \/ AfterRequired(h)
    \/ AfterWaiting(h)
    \/ WaitConnected(h)
    \/ WaitFails(h)
    \/ AfterEstablished(h)
    \/ AfterAuthError(h)
    \/ RecordAuthFailure(h)
    \/ ExecuteReturns(h)
    \/ ExecuteFails(h)
    \/ Finish(h)

Next == \E h \in Handles : Start(h) \/ Step(h)

Spec == Init /\ [][Next]_vars

\* One Handle call whose collaborators always return or raise and whose
\* consumer keeps asking for the next event: the provider may fail, or the
\* gateway is the looping stub.
InitLive ==
    /\ NoHandleCall
    /\ NoPrioritizerCall
    /\ composio_initialized = TRUE
    /\ startsLeft = 1
    /\ \/ /\ gateway = "free"
          /\ richLeft = MaxFaultyIntents /\ faultsLeft = MaxFaults /\ loopLeft = 0
       \/ /\ gateway = "looping"
          /\ richLeft = 0 /\ faultsLeft = 0
          /\ loopLeft = MAX_TOOL_ITERATIONS + MaxExtraReplies

SpecLive == InitLive /\ [][Next]_vars /\ WF_vars(Next)

\* One uncancelled Handle call whose provider may fail and whose model asks
\* for several tools in one reply, once; or the gateway is the looping stub.
InitFault ==
    /\ NoHandleCall
    /\ NoPrioritizerCall
    /\ composio_initialized = TRUE
    /\ startsLeft = 1
    /\ \/ /\ gateway = "once"
          /\ richLeft = MaxIntents /\ faultsLeft = MaxFaults /\ loopLeft = 0
       \/ /\ gateway = "looping"
          /\ richLeft = 0 /\ faultsLeft = 0
          /\ loopLeft = MAX_TOOL_ITERATIONS + MaxExtraReplies

SpecFault == InitFault /\ [][Next]_vars

\* Handle calls made one after the other, on a new conversation or on one
\* that exists.  The model asks for tools in one reply and the provider is
\* dependable, or it asks for one tool and the provider may fail, or it is
\* the looping stub.
InitSeq ==
    /\ NoHandleCall
    /\ NoPrioritizerCall
    /\ composio_initialized = TRUE
    /\ startsLeft = MaxHandles
    /\ \/ /\ gateway = "once"
          /\ richLeft = MaxConcIntents /\ faultsLeft = 0 /\ loopLeft = 0
       \/ /\ gateway = "once"
          /\ richLeft = 1 /\ faultsLeft = MaxConcFaults /\ loopLeft = 0
       \/ /\ gateway = "looping"
          /\ richLeft = 0 /\ faultsLeft = 0
          /\ loopLeft = MAX_TOOL_ITERATIONS + MaxExtraReplies

SpecSeq == InitSeq /\ [][Next]_vars

\* Handle calls that overlap and streams that the consumer cancels.
InitConc ==
    /\ NoHandleCall
    /\ NoPrioritizerCall
    /\ composio_initialized = TRUE
    /\ gateway = "free"
    /\ startsLeft = MaxHandles
    /\ richLeft = MaxConcIntents
    /\ faultsLeft = MaxConcFaults
    /\ loopLeft = MaxExtraReplies

NextConc == \E h \in Handles : Start(h) \/ StartOverlapping(h) \/ Cancel(h) \/ Step(h)

SpecConc == InitConc /\ [][NextConc]_vars

\* The prioritizer as a pure function of its three inputs.
PrioTools == {GITHUB_A, PING, 2, 12, 15}

RECURSIVE SeqsUpTo(_, _)
SeqsUpTo(S, n) ==
    IF n = 0 THEN {<<>>}
    ELSE LET shorter == SeqsUpTo(S, n - 1)
         IN  shorter \cup { Append(q, x) : q \in { r \in shorter : Len(r) = n - 1 }, x \in S }

InitPrio ==
    /\ NoHandleCall
    /\ composio_initialized = FALSE
    /\ gateway = "free"
    /\ startsLeft = 0
    /\ faultsLeft = 0
    /\ richLeft = 0
    /\ loopLeft = 0
    /\ p_tools \in SeqsUpTo(PrioTools, MaxListLen)
    /\ p_message \in 1..Len(MESSAGES)
    /\ p_max_tools \in 0..MaxCount
    /\ p_result = None

NextPrio == Prioritize

SpecPrio == InitPrio /\ [][NextPrio]_vars

\* ------------------------------------------------------------ properties
\* An Assistant turn that carries tool-call intents.
HasIntents(turn) == turn.role = "assistant" /\ "tool_calls" \in DOMAIN turn

\* The intents, as <<turn, position>>, recorded before turn i of a history
\* with the call-id of the ToolResult turn i.
EarlierIntents(history, i) ==
    { jk \in (1..(i - 1)) \X (1..MaxIntents) :
        /\ HasIntents(history[jk[1]])
        /\ jk[2] <= Len(history[jk[1]].tool_calls)
        /\ history[jk[1]].tool_calls[jk[2]].id = history[i].tool_call_id }

ToolTurns(history) == { i \in 1..Len(history) : history[i].role = "tool" }

\* The Assistant turn that opened the round of ToolResult turn i: the last
\* turn with intents that the same Handle call appended before it.
RoundTurn(history, i) ==
    LET own == { j \in 1..(i - 1) :
                   HasIntents(history[j]) /\ history[j].by = history[i].by }
    IN  IF own = {} THEN 0 ELSE CHOOSE j \in own : \A k \in own : k <= j

\* C1 as stated: every ToolResult turn's call-id matches exactly one intent
\* recorded in an earlier Assistant turn of the conversation, and the turn
\* carries that intent's tool name.
C1_ExactlyOneEarlierIntent ==
    \A c \in 1..Len(conversations) : \A i \in ToolTurns(conversations[c]) :
        LET m == EarlierIntents(conversations[c], i)
        IN  /\ Cardinality(m) = 1
            /\ \A jk \in m :
                 conversations[c][jk[1]].tool_calls[jk[2]].name = conversations[c][i].name

\* C1 as amended: every ToolResult turn's call-id and tool name are those of
\* an intent recorded in an earlier Assistant turn of the conversation, and
\* of exactly one intent of the Assistant turn that opened its round; call-ids
\* reused by a later reply make the match over the whole history ambiguous.
C1_MatchesIntentOfItsRound ==
    \A c \in 1..Len(conversations) : \A i \in ToolTurns(conversations[c]) :
        LET history == conversations[c]
            r == RoundTurn(history, i)
        IN  /\ \E jk \in EarlierIntents(history, i) :
                 history[jk[1]].tool_calls[jk[2]].name = history[i].name
            /\ r # 0
            /\ Cardinality({ k \in 1..Len(history[r].tool_calls) :
                               history[r].tool_calls[k].id = history[i].tool_call_id }) = 1
            /\ \A k \in 1..Len(history[r].tool_calls) :
                 history[r].tool_calls[k].id = history[i].tool_call_id
                    => history[r].tool_calls[k].name = history[i].name

\* A history with ToolResult turns of two rounds that carry the same call-id.
C1_Witness ==
    \E c \in 1..Len(conversations) : \E i, j \in ToolTurns(conversations[c]) :
        /\ i < j
        /\ conversations[c][i].tool_call_id = conversations[c][j].tool_call_id
        /\ RoundTurn(conversations[c], i) # RoundTurn(conversations[c], j)

\* The rounds of a Handle call, counted in the history.
RoundsRecorded(h) ==
    IF hs[h].cid = 0 THEN 0
    ELSE Cardinality({ i \in 1..Len(conversations[hs[h].cid]) :
                         /\ HasIntents(conversations[hs[h].cid][i])
                         /\ conversations[hs[h].cid][i].by = h })

\* C2: a Handle call never runs more than MAX_TOOL_ITERATIONS (10) rounds,
\* whether counted by the loop or by the Assistant turns it recorded.
C2_RoundsWithinCap ==
    \A h \in Handles :
        /\ hs[h].iterations <= MAX_TOOL_ITERATIONS
        /\ RoundsRecorded(h) = hs[h].iterations

\* The looping stub has answered the model call after the tenth round.
C2_Witness ==
    \E h \in Handles :
        /\ hs[h].iterations = MAX_TOOL_ITERATIONS
        /\ hs[h].llm_response.tool_calls # <<>>
        /\ hs[h].pc = "y_reply"

\* C3: when the collaborators return and the consumer keeps reading, every
\* Handle call that was started ends its event stream.
C3_HandleTerminates ==
    \A h \in Handles : Active(h) ~> (hs[h].pc = "done")

\* A call driven by the looping stub has ended.
C3_Witness ==
    \E h \in Handles : hs[h].pc = "done" /\ gateway = "looping"

\* C4 as stated: on every model call at most MAX_TOOLS_PER_REQUEST discovered
\* tools and the Search tool are offered.
C4_VisibleToolsWithinCap ==
    \A h \in Handles :
        hs[h].pc = "a_llm" => Len(hs[h].available_tools) <= MAX_TOOLS_PER_REQUEST + 1

\* The events of a stream, by kind and subject.
Label(event) ==
    CASE event.type = "tool_call" -> <<"ToolCallRequested", event.name>>
      [] event.type = "tool_result" -> <<"ToolCallCompleted", event.name>>
      [] event.type = "tool_search" -> <<"ToolSearchPerformed", 0>>
      [] event.type = "connection_status" ->
            <<"ConnectionStatusChecked", IF event.connected THEN 1 ELSE 0>>
      [] event.type = "reply" -> <<"FinalReply", 0>>
      [] OTHER -> <<event.type, 0>>

Labels(events) == [i \in 1..Len(events) |-> Label(events[i])]

Ops(calls) == [i \in 1..Len(calls) |-> calls[i].op]

\* The scenario of C5: the model asks for Search with a query, discovery
\* finds one tool of a connected toolkit, the model asks for that tool, and
\* then answers with content.
SearchThenToolScenario(h) ==
    /\ hs[h].pc = "done"
    /\ Ops(hs[h].calls) = <<"llm", "search_tools", "llm", "get_connected_toolkits",
                            "execute_tool_for_user", "llm">>
    /\ hs[h].available_tools = <<SEARCH, GITHUB_A>>
    /\ hs[h].conn_status.connected
    /\ LET history == conversations[hs[h].cid]
       IN  /\ Len(history) = 7
           /\ HasIntents(history[3]) /\ Len(history[3].tool_calls) = 1
           /\ history[3].tool_calls[1].name = SEARCH
           /\ HasIntents(history[5]) /\ Len(history[5].tool_calls) = 1
           /\ history[5].tool_calls[1].name = GITHUB_A
           /\ history[7].role = "assistant" /\ ~HasIntents(history[7])

\* C5 as stated: ToolSearchPerformed comes before the Search intent is
\* announced and ConnectionStatusChecked before the tool is announced.
C5_EventOrderAsStated ==
    \A h \in Handles : SearchThenToolScenario(h) =>
        Labels(hs[h].events) =
            << <<"ToolSearchPerformed", 0>>, <<"ToolCallRequested", SEARCH>>,
               <<"ToolCallCompleted", SEARCH>>, <<"ConnectionStatusChecked", 1>>,
               <<"ToolCallRequested", GITHUB_A>>, <<"ToolCallCompleted", GITHUB_A>>,
               <<"FinalReply", 0>> >>

\* C5 as amended: each intent is announced first: ToolCallRequested(Search),
\* ToolSearchPerformed, ToolCallCompleted(Search), ToolCallRequested(tool),
\* ConnectionStatusChecked(connected), ToolCallCompleted(tool), FinalReply.
C5_EventOrderOfTheCode ==
    \A h \in Handles : SearchThenToolScenario(h) =>
        Labels(hs[h].events) =
            << <<"ToolCallRequested", SEARCH>>, <<"ToolSearchPerformed", 0>>,
               <<"ToolCallCompleted", SEARCH>>, <<"ToolCallRequested", GITHUB_A>>,
               <<"ConnectionStatusChecked", 1>>, <<"ToolCallCompleted", GITHUB_A>>,
               <<"FinalReply", 0>> >>

C5_Witness == \E h \in Handles : SearchThenToolScenario(h)

\* The first model call of a Handle call on a new conversation has raised.
FirstModelCallFailed(h) ==
    /\ hs[h].pc \in {"y_error", "done"}
    /\ Ops(hs[h].calls) = <<"llm">>
    /\ hs[h].llm_response = NoResponse

\* C6: when the first model call of a Handle call on a new conversation
\* raises, the stream is one Failed event and the conversation holds the
\* System turn and the User turn only.
C6_FirstCallFailure ==
    \A h \in Handles : FirstModelCallFailed(h) =>
        /\ Labels(hs[h].events) = << <<"error", 0>> >>
        /\ Len(conversations[hs[h].cid]) = 2
        /\ conversations[hs[h].cid][1].role = "system"
        /\ conversations[hs[h].cid][2].role = "user"

C6_Witness == \E h \in Handles : FirstModelCallFailed(h) /\ hs[h].pc = "done"

\* The part of a stream, and of the calls, that belongs to the intent the
\* loop is at: from its tool_call event to its tool_result event.
IntentStart(s) ==
    LET announced == { i \in 1..Len(s.events) : s.events[i].type = "tool_call" }
    IN  IF announced = {} THEN 0 ELSE CHOOSE i \in announced : \A j \in announced : j <= i

IntentEnd(s) ==
    LET completed == { i \in IntentStart(s)..Len(s.events) :
                         i > 0 /\ s.events[i].type = "tool_result" }
    IN  IF completed = {} THEN Len(s.events)
        ELSE CHOOSE i \in completed : \A j \in completed : i <= j

IntentEvents(s) ==
    IF IntentStart(s) = 0 THEN <<>> ELSE SubSeq(s.events, IntentStart(s), IntentEnd(s))

IntentCalls(s) ==
    { s.calls[i].op : i \in { j \in 1..Len(s.calls) :
                                IntentStart(s) # 0 /\ s.calls[j].at >= IntentStart(s) } }

CountType(events, type) ==
    Cardinality({ i \in 1..Len(events) : events[i].type = type })

\* Authorize has answered "no authorization required" for the current intent.
NoAuthRequired(h) ==
    /\ "authorize_toolkit" \in IntentCalls(hs[h])
    /\ hs[h].auth_response = "no_auth_required"

\* C7: when Authorize reports that no authorization is required, the
\* sub-flow emits one AuthorizationEstablished, no AuthorizationRequired, no
\* AuthorizationWaiting and no Failed, never waits for a connection, and the
\* tool is invoked as soon as the consumer has read the event.
C7_NoAuthRequired ==
    \A h \in Handles : NoAuthRequired(h) =>
        /\ CountType(IntentEvents(hs[h]), "connection_established") = 1
        /\ CountType(IntentEvents(hs[h]), "connection_required") = 0
        /\ CountType(IntentEvents(hs[h]), "connection_waiting") = 0
        /\ CountType(IntentEvents(hs[h]), "error") = 0
        /\ "wait_for_connection" \notin IntentCalls(hs[h])
        /\ hs[h].pc = "y_established" \/ "execute_tool_for_user" \in IntentCalls(hs[h])

C7_Witness ==
    \E h \in Handles : NoAuthRequired(h) /\ hs[h].pc = "y_tool_result"

\* Is the tool's toolkit one the message mentions.
Mentions(message, tool) ==
    /\ truthy(_extract_toolkit_from_tool(tool))
    /\ _extract_toolkit_from_tool(tool).v \in mentioned_toolkits(MESSAGES[message])

\* C8: for a list longer than maxCount, the result is the mentioned tools in
\* their order, cut to maxCount, then the first of the other tools in their
\* order, and has exactly maxCount tools.
C8_PrioritizerRanking ==
    (p_result.some /\ Len(p_tools) > p_max_tools) =>
        LET IsMentioned(tool) == Mentions(p_message, tool)
            IsOther(tool) == ~Mentions(p_message, tool)
            first == SelectSeq(p_tools, IsMentioned)
            rest == SelectSeq(p_tools, IsOther)
            kept == SubSeq(first, 1, IF Len(first) < p_max_tools
                                     THEN Len(first) ELSE p_max_tools)
        IN  /\ p_result.v = kept \o SubSeq(rest, 1, p_max_tools - Len(kept))
            /\ Len(p_result.v) = p_max_tools

\* A list of four tools, two of them GITHUB tools behind two others, cut to
\* three for a message that mentions GitHub.
C8_Witness ==
    /\ p_result.some
    /\ p_max_tools = 3
    /\ p_tools = <<2, GITHUB_A, 12, 15>>
    /\ p_message = 1
    /\ p_result.v = <<GITHUB_A, 15, 2>>

\* C9 as stated: at most one Handle call is in progress on a conversation,
\* and the turns of one Handle call are contiguous in its history.
C9_Serialized ==
    /\ \A g, h \in Handles :
          (g # h /\ Active(g) /\ Active(h)) => hs[g].cid # hs[h].cid
    /\ \A c \in 1..Len(conversations) :
          \A i, j, k \in 1..Len(conversations[c]) :
             (i < j /\ j < k /\ conversations[c][i].by = conversations[c][k].by)
                => conversations[c][j].by = conversations[c][i].by

\* The ToolResult turns a Handle call has appended.
ToolTurnsOf(h) ==
    IF hs[h].cid = 0 THEN {}
    ELSE { i \in ToolTurns(conversations[hs[h].cid]) : conversations[hs[h].cid][i].by = h }

\* C10 as stated: after a cancellation, every intent whose ToolCallCompleted
\* event was emitted has its ToolResult turn in the history.
C10_NoPartialInvocation ==
    \A h \in Handles :
        hs[h].pc = "cancelled" =>
            CountType(hs[h].events, "tool_result") = Cardinality(ToolTurnsOf(h))

\* C11: the last event of every completed stream is FinalReply or Failed;
\* FinalReply is emitted at most once and no event follows it.
C11_TerminalEvents ==
    \A h \in Handles :
        LET events == hs[h].events
        IN  /\ hs[h].pc = "done" =>
                 /\ events # <<>>
                 /\ events[Len(events)].type \in {"reply", "error"}
            /\ \A i \in 1..Len(events) :
                 events[i].type = "reply" =>
                    /\ i = Len(events)
                    /\ hs[h].pc \in {"y_reply", "done"}

\* A stream that has ended with FinalReply after a tool round.
C11_Witness ==
    \E h \in Handles :
        /\ hs[h].pc = "done"
        /\ hs[h].iterations > 0
        /\ hs[h].events[Len(hs[h].events)].type = "reply"

\* The n-th smallest element of a set of numbers.
NthIndex(S, n) == CHOOSE x \in S : Cardinality({ y \in S : y <= x }) = n

\* The Assistant turns with intents that a Handle call has appended, and the
\* ToolResult turns it has appended in its round r.
RoundTurns(h) ==
    IF hs[h].cid = 0 THEN {}
    ELSE { i \in 1..Len(conversations[hs[h].cid]) :
             /\ HasIntents(conversations[hs[h].cid][i])
             /\ conversations[hs[h].cid][i].by = h }

ResultTurns(h, r) ==
    IF r < 1 \/ r > Cardinality(RoundTurns(h)) THEN {}
    ELSE { i \in ToolTurnsOf(h) :
             /\ i > NthIndex(RoundTurns(h), r)
             /\ r < Cardinality(RoundTurns(h)) => i < NthIndex(RoundTurns(h), r + 1) }

\* Has the ToolResult turn of intent k of round r been recorded, and what
\* does it hold.
IntentRecorded(h, r, k) == k >= 1 /\ Cardinality(ResultTurns(h, r)) >= k

IntentResult(h, r, k) == conversations[hs[h].cid][NthIndex(ResultTurns(h, r), k)]

\* The Handle call has left intent k of round r behind: it is at a later
\* intent, at the next model call, or at its end.
PastIntent(h, r, k) ==
    \/ hs[h].iterations > r
    \/ hs[h].iterations = r /\ hs[h].tc > k
    \/ hs[h].iterations = r /\ hs[h].tc = k
         /\ hs[h].pc \in {"a_llm", "y_reply", "y_error", "done"}

\* The intent a call was made for has a failed ToolResult turn as soon as
\* the Handle call has left the intent behind.
FailedResultRecorded(h, c) ==
    PastIntent(h, c.round, c.tc) =>
        /\ IntentRecorded(h, c.round, c.tc)
        /\ IntentResult(h, c.round, c.tc).content.successful = FALSE
        /\ IntentResult(h, c.round, c.tc).tool_call_id
              = conversations[hs[h].cid][NthIndex(RoundTurns(h), c.round)].tool_calls[c.tc].id

\* The event emitted right after a call is a Failed event.
FailedEmitted(h, c) ==
    /\ Len(hs[h].events) > c.at
    /\ hs[h].events[c.at + 1].type = "error"

RaisedCalls(h) == { i \in 1..Len(hs[h].calls) : hs[h].calls[i].raised }

\* C12 as stated: every collaborator call that raises, the connection status
\* query included, leads to a Failed event or to a failed ToolResult turn
\* for its intent.
C12_NoSilentFailure ==
    \A h \in Handles : \A i \in RaisedCalls(h) :
        LET c == hs[h].calls[i]
        IN  \/ FailedEmitted(h, c)
            \/ c.op # "llm" /\ FailedResultRecorded(h, c)

\* C12 as amended: a raising model call leads to a Failed event that ends
\* the stream; a raising discovery or invocation to a failed ToolResult turn;
\* a raising authorize or wait to a Failed event and a failed ToolResult
\* turn; a raising connection status query is reported as
\* ConnectionStatusChecked(connected = false, requiresAuth = true) and leads
\* to neither by itself.
C12_NoSilentFailureButStatus ==
    \A h \in Handles : \A i \in RaisedCalls(h) :
        LET c == hs[h].calls[i]
        IN  CASE c.op = "llm" ->
                   /\ FailedEmitted(h, c)
                   /\ Len(hs[h].events) = c.at + 1
                   /\ i = Len(hs[h].calls)
              [] c.op \in {"search_tools", "execute_tool_for_user"} ->
                   FailedResultRecorded(h, c)
              [] c.op \in {"authorize_toolkit", "wait_for_connection"} ->
                   FailedEmitted(h, c) /\ FailedResultRecorded(h, c)
              [] c.op = "get_connected_toolkits" ->
                   /\ Len(hs[h].events) > c.at
                   /\ hs[h].events[c.at + 1].type = "connection_status"
                   /\ hs[h].events[c.at + 1].connected = FALSE
                   /\ hs[h].events[c.at + 1].requires_auth = TRUE

\* A discovery call has raised and the Handle call has gone on to the next
\* model call.
C12_Witness ==
    \E h \in Handles : \E i \in RaisedCalls(h) :
        /\ hs[h].calls[i].op = "search_tools"
        /\ PastIntent(h, hs[h].calls[i].round, hs[h].calls[i].tc)

\* The authorize and wait calls that ended the authorization sub-flow with a
\* Failed event.
AuthFailedCalls(h) ==
    { i \in 1..Len(hs[h].calls) :
        /\ hs[h].calls[i].op \in {"authorize_toolkit", "wait_for_connection"}
        /\ FailedEmitted(h, hs[h].calls[i]) }

\* The intents of round r of a Handle call, as recorded in the history.
RoundIntents(h, r) == conversations[hs[h].cid][NthIndex(RoundTurns(h), r)].tool_calls

\* The Handle call has left round r behind.
RoundOver(h, r) ==
    \/ hs[h].iterations > r
    \/ hs[h].iterations = r /\ hs[h].pc \in {"a_llm", "y_reply", "y_error", "done"}

\* C13: when the authorization sub-flow of an intent fails, a Failed event
\* for the intent's toolkit is emitted, the tool is not invoked, a failed
\* ToolResult turn with the intent's call-id is recorded, the other intents
\* of the round are processed and the model is called again.
C13_AuthFailureRecovered ==
    \A h \in Handles : \A i \in AuthFailedCalls(h) :
        LET c == hs[h].calls[i]
            intent == RoundIntents(h, c.round)[c.tc]
        IN  /\ hs[h].events[c.at + 1].toolkit
                  = _extract_toolkit_from_tool_name(NAME[intent.name]).v
            /\ \A j \in 1..Len(hs[h].calls) :
                 hs[h].calls[j].op = "execute_tool_for_user" =>
                    ~(hs[h].calls[j].round = c.round /\ hs[h].calls[j].tc = c.tc)
            /\ FailedResultRecorded(h, c)
            /\ PastIntent(h, c.round, c.tc) =>
                 IntentResult(h, c.round, c.tc).name = intent.name
            /\ RoundOver(h, c.round) =>
                 /\ Cardinality(ResultTurns(h, c.round)) = Len(RoundIntents(h, c.round))
                 /\ \E j \in (i + 1)..Len(hs[h].calls) :
                      hs[h].calls[j].op = "llm" /\ hs[h].calls[j].round = c.round

\* The authorization of the first of two intents has failed, the second
\* intent was invoked and the model was called again.
C13_Witness ==
    \E h \in Handles : \E i \in AuthFailedCalls(h) :
        /\ hs[h].calls[i].tc = 1
        /\ Len(RoundIntents(h, hs[h].calls[i].round)) = 2
        /\ RoundOver(h, hs[h].calls[i].round)
        /\ \E j \in 1..Len(hs[h].calls) :
             hs[h].calls[j].op = "execute_tool_for_user" /\ hs[h].calls[j].tc = 2

\* The invocations that raised.
RaisedInvocations(h) ==
    { i \in RaisedCalls(h) : hs[h].calls[i].op = "execute_tool_for_user" }

\* C14: when Invoke raises for an intent, ToolCallCompleted is emitted with a
\* failed result, a failed ToolResult turn with the intent's call-id is
\* recorded, the other intents of the round are processed and the model is
\* called again; the only conversation-level Failed events are those of a
\* raising model call.
C14_InvokeFailureRecovered ==
    \A h \in Handles :
        /\ \A i \in RaisedInvocations(h) :
             LET c == hs[h].calls[i]
                 intent == RoundIntents(h, c.round)[c.tc]
                 event == hs[h].events[c.at + 1]
             IN  /\ Len(hs[h].events) > c.at
                 /\ event.type = "tool_result"
                 /\ event.name = intent.name
                 /\ event.result.successful = FALSE
                 /\ FailedResultRecorded(h, c)
                 /\ RoundOver(h, c.round) =>
                      /\ Cardinality(ResultTurns(h, c.round)) = Len(RoundIntents(h, c.round))
                      /\ \E j \in (i + 1)..Len(hs[h].calls) :
                           hs[h].calls[j].op = "llm" /\ hs[h].calls[j].round = c.round
        /\ \A e \in 1..Len(hs[h].events) :
             (hs[h].events[e].type = "error" /\ "toolkit" \notin DOMAIN hs[h].events[e]) =>
                \E j \in RaisedCalls(h) :
                    hs[h].calls[j].op = "llm" /\ hs[h].calls[j].at = e - 1

\* The invocation of the first of two intents has raised, the second intent
\* has its result and the model has answered the next call.
C14_Witness ==
    \E h \in Handles : \E i \in RaisedInvocations(h) :
        /\ hs[h].calls[i].tc = 1
        /\ Len(RoundIntents(h, hs[h].calls[i].round)) = 2
        /\ Cardinality(ResultTurns(h, hs[h].calls[i].round)) = 2
        /\ hs[h].pc = "y_reply"

\* The model has answered the call that followed round MAX_TOOL_ITERATIONS
\* with a reply that still carries intents.
CapReached(h) ==
    /\ hs[h].iterations = MAX_TOOL_ITERATIONS
    /\ hs[h].llm_response.tool_calls # <<>>
    /\ hs[h].pc \notin {"idle", "a_llm"}
    /\ hs[h].calls[Len(hs[h].calls)].op = "llm"
    /\ hs[h].calls[Len(hs[h].calls)].round = MAX_TOOL_ITERATIONS
    /\ ~hs[h].calls[Len(hs[h].calls)].raised

\* C15: when the reply after the tenth round still carries intents, none of
\* them is announced, executed or recorded; the reply's content is appended
\* as the final Assistant turn and emitted as FinalReply.
C15_CapIsSafetyValve ==
    \A h \in Handles : CapReached(h) =>
        LET history == conversations[hs[h].cid]
            events == hs[h].events
            last_call == hs[h].calls[Len(hs[h].calls)]
        IN  /\ hs[h].pc \in {"y_reply", "done"}
            /\ Len(events) = last_call.at + 1
            /\ events[Len(events)] = [type |-> "reply", conversation_id |-> hs[h].cid,
                                      content |-> hs[h].llm_response.content]
            /\ CountType(events, "error") = 0
            /\ history[Len(history)].role = "assistant"
            /\ ~HasIntents(history[Len(history)])
            /\ history[Len(history)].content = hs[h].llm_response.content
            /\ history[Len(history) - 1].role = "tool"
            /\ Cardinality(RoundTurns(h)) = MAX_TOOL_ITERATIONS
            /\ CountType(events, "tool_call") = Cardinality(ToolTurnsOf(h))

C15_Witness ==
    \E h \in Handles : CapReached(h) /\ hs[h].pc = "done"

\* C16: after any number of Handle calls on a conversation id, its history
\* holds exactly one System turn, and it is the first turn.
C16_OneSystemTurn ==
    \A c \in 1..Len(conversations) :
        /\ conversations[c][1].role = "system"
        /\ \A i \in 2..Len(conversations[c]) : conversations[c][i].role # "system"

\* A conversation on which a second Handle call has ended.
C16_Witness ==
    \E c \in 1..Len(conversations) : \E g, h \in Handles :
        /\ g # h
        /\ hs[g].cid = c /\ hs[h].cid = c
        /\ hs[g].pc = "done" /\ hs[h].pc = "done"

\* The calls made for the same intent as call j, before it.
EarlierCallsOfIntent(h, j) ==
    { i \in 1..(j - 1) :
        /\ hs[h].calls[i].round = hs[h].calls[j].round
        /\ hs[h].calls[i].tc = hs[h].calls[j].tc }

\* Invocation j was preceded, for its intent, by a connection status query
\* whose ConnectionStatusChecked event names the toolkit derived from the
\* tool name, and the status was connected or the authorization sub-flow
\* ended with AuthorizationEstablished.
GatedInvocation(h, j) ==
    LET c == hs[h].calls[j]
        tool_name == NAME[RoundIntents(h, c.round)[c.tc].name]
    IN  \E i \in EarlierCallsOfIntent(h, j) :
            LET status == hs[h].events[hs[h].calls[i].at + 1]
            IN  /\ hs[h].calls[i].op = "get_connected_toolkits"
                /\ status.type = "connection_status"
                /\ Some(status.toolkit) = _extract_toolkit_from_tool_name(tool_name)
                /\ \/ status.connected
                   \/ \E e \in (hs[h].calls[i].at + 2)..c.at :
                        hs[h].events[e].type = "connection_established"

\* C17 as stated: every invocation, whatever the shape of the tool name, is
\* gated by the connection status of the derived toolkit.
C17_InvocationGated ==
    \A h \in Handles : \A j \in 1..Len(hs[h].calls) :
        hs[h].calls[j].op = "execute_tool_for_user" => GatedInvocation(h, j)

\* The Handle call is at a Search intent whose query is missing or empty:
\* the intent was announced, or its ToolCallCompleted was emitted.
AtEmptySearch(h, pc) ==
    /\ hs[h].pc = pc
    /\ Intent(hs[h]).name = SEARCH
    /\ Intent(hs[h]).arguments = 0

\* C18: a Search intent with a missing or empty query is answered without a
\* provider call: the step after its announcement only emits
\* ToolCallCompleted with a failed result (no discovery call, no
\* ToolSearchPerformed, the visible tool set unchanged), and the next step
\* records a failed ToolResult turn with the intent's call-id and leaves the
\* visible tool set unchanged.
C18_EmptyQuery ==
    [][\A h \in Handles :
         /\ (AtEmptySearch(h, "y_tool_call") /\ hs'[h] # hs[h]) =>
               /\ hs'[h].pc = "y_tool_result"
               /\ hs'[h].calls = hs[h].calls
               /\ hs'[h].available_tools = hs[h].available_tools
               /\ hs'[h].events =
                     Append(hs[h].events,
                            [type |-> "tool_result", name |-> SEARCH,
                             result |-> failed_result("Missing query parameter")])
               /\ conversations' = conversations
         /\ (AtEmptySearch(h, "y_tool_result") /\ hs'[h] # hs[h]) =>
               /\ hs'[h].available_tools = hs[h].available_tools
               /\ Len(conversations'[hs[h].cid]) = Len(conversations[hs[h].cid]) + 1
               /\ LET turn == conversations'[hs[h].cid][Len(conversations'[hs[h].cid])]
                  IN  /\ turn.role = "tool"
                      /\ turn.tool_call_id = Intent(hs[h]).id
                      /\ turn.name = SEARCH
                      /\ turn.content.successful = FALSE
    ]_vars

\* The failed ToolResult turn of a Search intent with an empty query has
\* been recorded after an earlier search had made tools visible.
C18_Witness ==
    \E h \in Handles :
        /\ hs[h].cid # 0
        /\ Len(hs[h].available_tools) > 1
        /\ LET history == conversations[hs[h].cid]
           IN  /\ history[Len(history)].role = "tool"
               /\ history[Len(history)].name = SEARCH
               /\ history[Len(history)].content = failed_result("Missing query parameter")

\* The tools of a list.
ToolSet(tools) == { tools[i] : i \in 1..Len(tools) }

\* What discovery returned, read off the ToolSearchPerformed event (the
\* results of the model differ in length).
FoundTools(event) == CHOOSE found \in CATALOGUE : Len(found) = event.tools_found

\* C19: the visible tool set never holds a tool twice, and a discovery that
\* returns only tools already visible leaves it unchanged; otherwise the
\* tools that were visible stay, in their order.
C19_MergeIdempotent ==
    /\ [](\A h \in Handles : \A i, j \in 1..Len(hs[h].available_tools) :
             i # j => hs[h].available_tools[i] # hs[h].available_tools[j])
    /\ [][\A h \in Handles :
            (hs[h].pc = "a_search" /\ hs'[h].pc = "y_tool_search") =>
               LET found == FoundTools(hs'[h].events[Len(hs'[h].events)])
               IN  /\ ToolSet(found) \subseteq ToolSet(hs[h].available_tools)
                        => hs'[h].available_tools = hs[h].available_tools
                   /\ SubSeq(hs'[h].available_tools, 1, Len(hs[h].available_tools))
                        = hs[h].available_tools
                   /\ ToolSet(hs'[h].available_tools)
                        \subseteq ToolSet(hs[h].available_tools) \cup ToolSet(found)
       ]_vars

\* A second search has returned the one tool that the first had made visible.
C19_Witness ==
    \E h \in Handles :
        /\ hs[h].pc = "y_tool_search"
        /\ hs[h].available_tools = <<SEARCH, GITHUB_A>>
        /\ \E i, j \in 1..Len(hs[h].events) :
             /\ i < j
             /\ hs[h].events[i].type = "tool_search" /\ hs[h].events[i].tools_found = 1
             /\ hs[h].events[j].type = "tool_search" /\ hs[h].events[j].tools_found = 1

\* The follow-up model calls (made after at least one round) that raised.
RaisedFollowUps(h) ==
    { i \in RaisedCalls(h) : hs[h].calls[i].op = "llm" /\ hs[h].calls[i].round >= 1 }

\* C20: a raising follow-up model call ends the Handle call: its Failed
\* event is the only conversation-level one and the last event, the model is
\* not called again, no final Assistant turn is appended, every intent
\* recorded has its ToolResult turn, and from the failure on the history
\* does not change.
C20_FollowUpFailure ==
    /\ [](\A h \in Handles : \A i \in RaisedFollowUps(h) :
             LET c == hs[h].calls[i]
                 events == hs[h].events
                 history == conversations[hs[h].cid]
             IN  /\ i = Len(hs[h].calls)
                 /\ hs[h].pc \in {"y_error", "done"}
                 /\ Len(events) = c.at + 1
                 /\ events[Len(events)] = [type |-> "error", message |-> "LLM error"]
                 /\ Cardinality({ e \in 1..Len(events) :
                                    /\ events[e].type = "error"
                                    /\ "toolkit" \notin DOMAIN events[e] }) = 1
                 /\ history[Len(history)].role = "tool"
                 /\ \A t \in 1..Len(history) :
                      (history[t].role = "assistant" /\ history[t].by = h)
                         => HasIntents(history[t])
                 /\ Cardinality(RoundTurns(h)) = c.round
                 /\ \A r \in 1..c.round :
                      Cardinality(ResultTurns(h, r)) = Len(RoundIntents(h, r)))
    /\ [][\A h \in Handles :
            (hs[h].pc \in {"a_llm", "y_error"} /\ hs'[h].pc \in {"y_error", "done"})
               => conversations' = conversations
       ]_vars

\* A Handle call has ended after its second model call raised.
C20_Witness ==
    \E h \in Handles :
        /\ hs[h].pc = "done"
        /\ RaisedFollowUps(h) # {}
        /\ Len(hs[h].events) > 1

\* The calls of an operation issued when exactly n events had been emitted.
CallsAt(h, op, n) ==
    { i \in 1..Len(hs[h].calls) : hs[h].calls[i].op = op /\ hs[h].calls[i].at = n }

\* The Failed event of the authorization sub-flow.
IsAuthError(event) == event.type = "error" /\ "toolkit" \in DOMAIN event

\* C21: when authorization is required, AuthorizationRequired is followed
\* by AuthorizationWaiting, then AwaitConnection is called (once, and not
\* before the waiting event), and the sub-flow ends with exactly one of
\* AuthorizationEstablished (success: the tool is invoked) or Failed
\* (failure: a failed tool result, no invocation); the event after that
\* one is the intent's ToolCallCompleted.
C21_AuthSubFlowOrder ==
    \A h \in Handles :
        LET events == hs[h].events
        IN  \A e \in 1..Len(events) :
              events[e].type = "connection_required" =>
                /\ CallsAt(h, "wait_for_connection", e) = {}
                /\ CallsAt(h, "authorize_toolkit", e - 1) # {}
                /\ Cardinality(CallsAt(h, "wait_for_connection", e + 1)) <= 1
                /\ Len(events) >= e + 1 =>
                     events[e + 1].type = "connection_waiting"
                /\ Len(events) >= e + 2 =>
                     /\ Cardinality(CallsAt(h, "wait_for_connection", e + 1)) = 1
                     /\ \/ events[e + 2].type = "connection_established"
                        \/ IsAuthError(events[e + 2])
                     /\ events[e + 2].toolkit = events[e].toolkit
                /\ Len(events) >= e + 3 =>
                     /\ events[e + 3].type = "tool_result"
                     /\ IF events[e + 2].type = "connection_established"
                        THEN Cardinality(CallsAt(h, "execute_tool_for_user", e + 2)) = 1
                        ELSE /\ CallsAt(h, "execute_tool_for_user", e + 2) = {}
                             /\ events[e + 3].result = failed_result("Authorization failed")

\* A call in which a required authorization ended with Failed has come to
\* its end.
C21_Witness ==
    \E h \in Handles :
        /\ hs[h].pc = "done"
        /\ \E e \in 1..Len(hs[h].events) :
             /\ hs[h].events[e].type = "connection_required"
             /\ Len(hs[h].events) >= e + 3
             /\ IsAuthError(hs[h].events[e + 2])

\* The stream of the Handle call has FinalReply as its last event.
EndsWithReply(h) ==
    /\ hs[h].pc \in {"y_reply", "done"}
    /\ hs[h].events # <<>>
    /\ hs[h].events[Len(hs[h].events)].type = "reply"

\* C22: when a stream ends with FinalReply, the last turn of the history
\* is an Assistant turn without intents whose content is that of the last
\* model reply, and the event carries the same content and the id of the
\* conversation the turn was appended to.
C22_Finalize ==
    \A h \in Handles :
        EndsWithReply(h) =>
            LET history == conversations[hs[h].cid]
                last == history[Len(history)]
                reply == hs[h].events[Len(hs[h].events)]
            IN  /\ last.role = "assistant"
                /\ ~HasIntents(last)
                /\ last.by = h
                /\ last.content = hs[h].llm_response.content
                /\ reply.content = hs[h].llm_response.content
                /\ reply.conversation_id = hs[h].cid
                /\ hs[h].calls[Len(hs[h].calls)].op = "llm"
                /\ ~hs[h].calls[Len(hs[h].calls)].raised

\* A stream has ended with FinalReply after a round of tool calls.
C22_Witness ==
    \E h \in Handles :
        /\ EndsWithReply(h)
        /\ hs[h].pc = "done"
        /\ hs[h].iterations >= 1

\* C23: when the Tool Provider is unavailable, the model is called once,
\* with no visible tool; no Tool Provider operation is called, no round is
\* entered, and the stream is exactly one event, FinalReply or Failed.
C23_ProviderUnavailable ==
    ~composio_initialized =>
        \A h \in Handles :
            hs[h].pc # "idle" =>
                /\ hs[h].available_tools = <<>>
                /\ hs[h].pc \in {"a_llm", "y_reply", "y_error", "done"}
                /\ Ops(hs[h].calls) = <<"llm">>
                /\ hs[h].iterations = 0
                /\ \A t \in 1..Len(conversations[hs[h].cid]) :
                       ~HasIntents(conversations[hs[h].cid][t])
                /\ hs[h].pc = "a_llm" => hs[h].events = <<>>
                /\ hs[h].pc # "a_llm" =>
                     /\ Len(hs[h].events) = 1
                     /\ hs[h].events[1].type =
                            IF hs[h].calls[1].raised THEN "error" ELSE "reply"

\* A call without the Tool Provider has ended with FinalReply.
C23_Witness ==
    /\ ~composio_initialized
    /\ \E h \in Handles :
         /\ hs[h].pc = "done"
         /\ Len(hs[h].events) = 1
         /\ hs[h].events[1].type = "reply"

\* C24: a list of at most maxCount tools is returned as it is, whatever the
\* message mentions; in every case the result has min(len(tools), maxCount)
\* tools, each of them a tool of the input.
C24_PrioritizerIdentity ==
    p_result.some =>
        /\ Len(p_tools) <= p_max_tools => p_result.v = p_tools
        /\ Len(p_result.v) = IF Len(p_tools) < p_max_tools
                             THEN Len(p_tools) ELSE p_max_tools
        /\ \A i \in 1..Len(p_result.v) :
             \E j \in 1..Len(p_tools) : p_tools[j] = p_result.v[i]

\* A list within the cap whose mentioned tool stands behind another tool
\* has been returned.
C24_Witness ==
    /\ p_result.some
    /\ p_max_tools = 3
    /\ p_tools = <<2, GITHUB_A>>
    /\ p_message = 1
    /\ p_result.v = <<2, GITHUB_A>>

GMAIL_A == CHOOSE i \in 1..Len(NAME) : NAME[i] = <<"G", "M", "A", "I", "L", "_", "A">>

\* The tools that a discovery result adds for a user message: the tools of
\* the toolkits the message mentions, then the others, cut to the cap.
RankedByMessage(found, message) ==
    LET mentioned == mentioned_toolkits(MESSAGES[message])
        IsMentioned(tool) ==
            /\ truthy(_extract_toolkit_from_tool(tool))
            /\ _extract_toolkit_from_tool(tool).v \in mentioned
        IsOther(tool) == ~IsMentioned(tool)
    IN  slice_to(SelectSeq(found, IsMentioned) \o SelectSeq(found, IsOther),
                 MAX_TOOLS_PER_REQUEST)

\* C25: the tools that a search merges into the visible set are decided by
\* the toolkits the user message of the Handle call mentions, not by the
\* search query: the set grows by the result ranked by the message, and
\* for a message that mentions no toolkit the new tools are appended in the
\* order of the discovery result, whatever the query mentions.
C25_RelevanceIsUserMessage ==
    [][\A h \in Handles :
         (hs[h].pc = "a_search" /\ hs'[h].pc = "y_tool_search") =>
            LET found == FoundTools(hs'[h].events[Len(hs'[h].events)])
                ranked == RankedByMessage(found, hs[h].message)
                before == hs[h].available_tools
                after == hs'[h].available_tools
                IsNew(tool) == tool \notin ToolSet(before)
            IN  /\ ToolSet(after) = ToolSet(before) \cup ToolSet(ranked)
                /\ SubSeq(after, 1, Len(before)) = before
                /\ mentioned_toolkits(MESSAGES[hs[h].message]) = {} =>
                     after = before \o
                             SelectSeq(slice_to(found, MAX_TOOLS_PER_REQUEST), IsNew)
      ]_vars

\* A search whose query mentions Gmail, made for a message that mentions
\* GitHub, has returned more tools than the cap: the GitHub tool is visible
\* and the Gmail tool is not.
C25_Witness ==
    \E h \in Handles :
        /\ hs[h].pc = "y_tool_search"
        /\ hs[h].message = 1
        /\ contains(lower(QUERIES[Intent(hs[h]).arguments]), <<"g", "m", "a", "i", "l">>)
        /\ hs[h].events[Len(hs[h].events)].tools_found > MAX_TOOLS_PER_REQUEST
        /\ GITHUB_A \in ToolSet(hs[h].available_tools)
        /\ GMAIL_A \notin ToolSet(hs[h].available_tools)

\* The ToolCallRequested and ToolCallCompleted events among the first n.
PairingEvents(events, n) ==
    { e \in 1..n : events[e].type \in {"tool_call", "tool_result"} }

Largest(S) == CHOOSE x \in S : \A y \in S : y <= x

\* C26: ToolCallRequested and ToolCallCompleted alternate, a completion
\* carries the name of the request before it, every model call is made
\* with no request open, and a stream that has ended has as many
\* completions as requests.
C26_RequestCompletionPairing ==
    \A h \in Handles :
        LET events == hs[h].events
            all == PairingEvents(events, Len(events))
        IN  /\ \A e \in all :
                 LET earlier == { d \in all : d < e }
                 IN  IF events[e].type = "tool_call"
                     THEN earlier # {} => events[Largest(earlier)].type = "tool_result"
                     ELSE /\ earlier # {}
                          /\ events[Largest(earlier)].type = "tool_call"
                          /\ events[Largest(earlier)].name = events[e].name
            /\ \A i \in 1..Len(hs[h].calls) :
                 LET seen == PairingEvents(events, hs[h].calls[i].at)
                 IN  (hs[h].calls[i].op = "llm" /\ seen # {}) =>
                        events[Largest(seen)].type = "tool_result"
            /\ hs[h].pc = "done" =>
                 CountType(events, "tool_call") = CountType(events, "tool_result")

\* A stream with two requests, one of which failed in its authorization,
\* has ended.
C26_Witness ==
    \E h \in Handles :
        /\ hs[h].pc = "done"
        /\ CountType(hs[h].events, "tool_call") = 2
        /\ \E e \in 1..Len(hs[h].events) : IsAuthError(hs[h].events[e])

\* The turns of a history from an Assistant turn with intents up to the
\* last ToolResult turn its intents ask for.
BlockOf(history, t) == (t + 1)..(t + Len(history[t].tool_calls))

\* C27: whenever a Handle call is calling the model, every Assistant turn
\* with n intents in the history is directly followed by exactly n
\* ToolResult turns that carry the intents' call-ids in their order, and
\* every ToolResult turn is one of these.
C27_HistoryShapeAtModelCall ==
    \A h \in Handles :
        hs[h].pc = "a_llm" =>
            LET history == conversations[hs[h].cid]
                rounds == { t \in 1..Len(history) : HasIntents(history[t]) }
            IN  /\ \A t \in rounds :
                     LET n == Len(history[t].tool_calls)
                     IN  /\ t + n <= Len(history)
                         /\ \A k \in 1..n :
                              /\ history[t + k].role = "tool"
                              /\ history[t + k].tool_call_id = history[t].tool_calls[k].id
                              /\ history[t + k].name = history[t].tool_calls[k].name
                         /\ t + n + 1 <= Len(history) =>
                              history[t + n + 1].role # "tool"
                /\ \A i \in ToolTurns(history) :
                     \E t \in rounds : i \in BlockOf(history, t)

\* The model is called after a round of two intents, the authorization of
\* one of which failed.
C27_Witness ==
    \E h \in Handles :
        /\ hs[h].pc = "a_llm"
        /\ LET history == conversations[hs[h].cid]
           IN  \E t \in 1..Len(history) :
                 /\ HasIntents(history[t])
                 /\ Len(history[t].tool_calls) = 2
                 /\ \E i \in BlockOf(history, t) :
                      history[i].content = failed_result("Authorization failed")

\* The connection-status queries that raised.
RaisedStatusQueries(h) ==
    { i \in RaisedCalls(h) : hs[h].calls[i].op = "get_connected_toolkits" }

\* C28: a status query that raises is reported as ConnectionStatusChecked
\* with connected false and requiresAuth true; the next provider call is
\* the authorization request, whose event is for the same toolkit and is
\* not a conversation-level Failed; and in every ConnectionStatusChecked
\* event requiresAuth is the negation of connected.
C28_StatusFailureIsNotConnected ==
    \A h \in Handles :
        LET events == hs[h].events
            calls == hs[h].calls
        IN  /\ \A i \in RaisedStatusQueries(h) :
                 LET e == calls[i].at + 1
                 IN  /\ Len(events) >= e
                     /\ events[e].type = "connection_status"
                     /\ ~events[e].connected
                     /\ events[e].requires_auth
                     /\ Len(calls) > i =>
                          /\ calls[i + 1].op = "authorize_toolkit"
                          /\ calls[i + 1].at = e
                     /\ Len(events) > e =>
                          /\ Len(calls) > i
                          /\ events[e + 1].type \in {"connection_established",
                                                     "connection_required", "error"}
                          /\ "toolkit" \in DOMAIN events[e + 1]
                          /\ events[e + 1].toolkit = events[e].toolkit
            /\ \A e \in 1..Len(events) :
                 events[e].type = "connection_status" =>
                    events[e].requires_auth = ~events[e].connected

\* After a status query that raised, the user has been asked to authorize
\* the toolkit.
C28_Witness ==
    \E h \in Handles :
        \E i \in RaisedStatusQueries(h) :
            /\ Len(hs[h].events) >= hs[h].calls[i].at + 2
            /\ hs[h].events[hs[h].calls[i].at + 2].type = "connection_required"

\* The Model Gateway calls of a Handle call.
ModelCalls(h) == { i \in 1..Len(hs[h].calls) : hs[h].calls[i].op = "llm" }

\* C29: a Handle call calls the model at most MAX_TOOL_ITERATIONS + 1
\* times and executes at most MAX_TOOL_ITERATIONS rounds; when its stream
\* ends with FinalReply the calls are one more than the rounds executed.
C29_ModelCallCount ==
    \A h \in Handles :
        hs[h].pc # "idle" =>
            /\ Cardinality(ModelCalls(h)) <= MAX_TOOL_ITERATIONS + 1
            /\ hs[h].iterations <= MAX_TOOL_ITERATIONS
            /\ Cardinality(RoundTurns(h)) = hs[h].iterations
            /\ EndsWithReply(h) =>
                 Cardinality(ModelCalls(h)) = hs[h].iterations + 1

\* A stream has ended with FinalReply after the largest number of model
\* calls.
C29_Witness ==
    \E h \in Handles :
        /\ EndsWithReply(h)
        /\ hs[h].pc = "done"
        /\ Cardinality(ModelCalls(h)) = MAX_TOOL_ITERATIONS + 1

\* The discovery calls that raised.
RaisedSearches(h) ==
    { i \in RaisedCalls(h) : hs[h].calls[i].op = "search_tools" }

\* C30: when discovery raises for a Search intent, the visible tools stay
\* as they are, the event that follows is the intent's ToolCallCompleted
\* with a failed result and not ToolSearchPerformed, a failed ToolResult
\* turn with the intent's call-id is recorded, and the round goes on: the
\* next intent is announced, or after the last intent the model is called.
C30_DiscoveryFailure ==
    /\ [](\A h \in Handles : \A i \in RaisedSearches(h) :
             LET c == hs[h].calls[i]
                 events == hs[h].events
                 intents == RoundIntents(h, c.round)
             IN  /\ intents[c.tc].name = SEARCH
                 /\ intents[c.tc].arguments # 0
                 /\ Len(events) > c.at
                 /\ events[c.at].type = "tool_call"
                 /\ events[c.at + 1].type = "tool_result"
                 /\ events[c.at + 1].name = SEARCH
                 /\ events[c.at + 1].result.successful = FALSE
                 /\ FailedResultRecorded(h, c)
                 /\ PastIntent(h, c.round, c.tc) =>
                      IF c.tc < Len(intents)
                      THEN /\ events[c.at + 2].type = "tool_call"
                           /\ events[c.at + 2].name = intents[c.tc + 1].name
                           /\ events[c.at + 2].arguments = intents[c.tc + 1].arguments
                      ELSE /\ Len(hs[h].calls) > i
                           /\ hs[h].calls[i + 1].op = "llm"
                           /\ hs[h].calls[i + 1].at = c.at + 1)
    /\ [][\A h \in Handles :
            (hs[h].pc = "a_search" /\ hs'[h].pc # "y_tool_search") =>
               /\ hs'[h].available_tools = hs[h].available_tools
               /\ conversations' = conversations
       ]_vars

\* After a search that added tools, the discovery of the next intent has
\* raised, and the model has answered the call that followed.
C30_Witness ==
    \E h \in Handles : \E i \in RaisedSearches(h) :
        /\ hs[h].calls[i].tc = 2
        /\ Len(hs[h].available_tools) > 1
        /\ hs[h].pc = "y_reply"

====
